---- MODULE Spec2Model ----
(***************************************************************************)
(* The server of node_frp (src/src/server.js, class FRPServer): control    *)
(* sessions, the listeners they own, the pending-connection table and the  *)
(* data-connection join.  Every await of the JavaScript handlers is a step *)
(* boundary: the code between two awaits is one atomic action, as in the   *)
(* event loop.                                                             *)
(***************************************************************************)
EXTENDS Integers, Sequences, FiniteSets, TLC

\* ------------------------------------------------------------------ bounds
\* Number of TCP connections the control port accepts in one behaviour.
MaxCSocks == 2
\* Number of changes the admin surface makes to the catalog.
MaxChanges == 1
\* Number of rows the admin surface saves unchanged.
MaxSaves == 1
\* The calls of connect() an agent makes.
MaxAttempts == 3
\* The datagrams the server forwards to an agent.
MaxDatagrams == 2

\* Number of user connections and server-side dials, of data connections,
\* and of connection ids.  Only the specification of colliding connection
\* ids uses the second user socket; the others use MaxUsers of them.
MaxUSocks == 2
MaxUsers == 1
MaxDSocks == 2
MaxConnIds == 2
\* Number of chunks a data connection carries after its first read.
MaxLater == 1

\* Number of heartbeats an agent sends on one control connection.
MaxBeats == 2

\* Number of local user connections the agent's own listeners accept, and of
\* payload bytes a user sends after its SOCKS5 request.
MaxLSocks == 1
MaxPayload == 2

\* ------------------------------------------------------ program constants
\* config.bindPort || 7000: the port of the control server itself.
BindPort == 7000
\* The heartbeat timeout, 40000 ms, in units of 10 s.
HeartbeatDeadline == 4

\* ----------------------------------------------------------------- catalog
CSocks == 1..MaxCSocks
USocks == 1..MaxUSocks
Users == 1..MaxUsers
DSocks == 1..MaxDSocks
LSocks == 1..MaxLSocks
ConnIds == 1..MaxConnIds
Agents == {"A", "B"}
\* msg.token of a control_handshake: an agent's token, the token of a client
\* row with enabled = 0, an unknown token, or no token at all.
Tokens == {"tokA", "tokB", "tokOff", "bad", "none"}
\* A first line that is no handshake: no JSON, or JSON of another type.
BadLines == {"malformed", "other"}

\* The rows of table port_forwards.  Rows 1 to 7 are the rows the catalog
\* holds at the start, with the row id as the index: two agents want remote
\* port 6001, one forward of B names the control port, and the reverse
\* forwards of A name server-side target ports.  Rows 8 and 9 are rows 3 and
\* 1 as the admin surface may rewrite them (field row names the row id): the
\* reverse forward with another local port, and the forward on port 6001
\* with another name.
Forwards ==
  << [client |-> "A", name |-> "ssh",    direction |-> "forward",
      proxy_type |-> "tcp",    remote_port |-> 6001, local_port |-> 22,
      row |-> 1],
     [client |-> "A", name |-> "socks",  direction |-> "dynamic",
      proxy_type |-> "socks5", remote_port |-> 6002, local_port |-> 0,
      row |-> 2],
     [client |-> "A", name |-> "rweb",   direction |-> "reverse",
      proxy_type |-> "tcp",    remote_port |-> 6002, local_port |-> 8080,
      row |-> 3],
     [client |-> "A", name |-> "rsocks", direction |-> "reverse-dynamic",
      proxy_type |-> "socks5", remote_port |-> 6003, local_port |-> 1080,
      row |-> 4],
     [client |-> "B", name |-> "web",    direction |-> "forward",
      proxy_type |-> "tcp",    remote_port |-> 6001, local_port |-> 80,
      row |-> 5],
     [client |-> "B", name |-> "ctl",    direction |-> "forward",
      proxy_type |-> "tcp",    remote_port |-> 7000, local_port |-> 22,
      row |-> 6],
     [client |-> "B", name |-> "db",     direction |-> "forward",
      proxy_type |-> "tcp",    remote_port |-> 7001, local_port |-> 5432,
      row |-> 7],
     [client |-> "A", name |-> "rweb",   direction |-> "reverse",
      proxy_type |-> "tcp",    remote_port |-> 6002, local_port |-> 8081,
      row |-> 3],
     [client |-> "A", name |-> "git",    direction |-> "forward",
      proxy_type |-> "tcp",    remote_port |-> 6001, local_port |-> 22,
      row |-> 1] >>

\* The rewritten rows, and the rows of the catalog at the start.
Revisions == {8, 9}
ForwardIds == DOMAIN Forwards \ Revisions
Ports == {Forwards[f].remote_port : f \in ForwardIds}

\* The bytes that follow the data_connection line in the first read of a
\* data connection: none, ASCII text, or a byte that is no UTF-8.
Residuals == {<<>>, <<72, 105>>, <<255>>}
\* A chunk a data connection carries later.
LaterChunk == <<33>>
\* The cmd and atyp bytes of a SOCKS5 request: CONNECT and BIND; IPv4, domain
\* name, IPv6 and an address type SOCKS5 does not define.
Cmds == {1, 2}
Atyps == {1, 3, 4, 5}
\* Payload bytes from + 1 .. from + n of a user's stream.
Payload(from, n) == [i \in 1..n |-> 100 + from + i]
\* Buffer.from([0x05, code, 0x00, 0x01, 0, 0, 0, 0, 0, 0]): a SOCKS5 reply.
SocksReply(code) == <<5, code, 0, 1, 0, 0, 0, 0, 0, 0>>

\* The catalogs a behaviour may start from: every row enabled, or the row
\* that names the control port disabled.
Catalogs == {ForwardIds, ForwardIds \ {6}}
\* The rows the admin surface toggles.
Toggled == {2, 5}

VARIABLES
  enabled,        \* port_forwards.enabled = 1: the enabled rows of the catalog
  alive,          \* per control socket: "none", "open", "closing", "closed"
  pc,             \* per control socket: where its onData handler stands
  isControl,      \* isControlConnection of handleControlConnection
  token,          \* msg.token while getClientByToken is awaited
  clientId,       \* socket.clientId
  hbTimer,        \* heartbeatTimer is armed
  todo,           \* forwards createClientProxies still has to visit
  clientSockets,  \* Map clientId -> socket
  proxyServers,   \* Map remotePort -> {controlSocket, portForwardId}
  clients,        \* Map socket -> [ports]
  servers,        \* the net.Server objects that hold a port
  rl,             \* per agent: the reloadClientPortForwards call in progress
  changes,        \* number of catalog changes made so far
  queued,         \* per agent: the sockets of the reloadClientPortForwards
                  \* calls whose query waits behind the one of rl
  saves,          \* number of rows saved unchanged so far
  usock,          \* per user/target socket: "none", "dialing", "open", "ended"
                  \* (end() was called on it), "destroyed", "closed"
  uconn,          \* per user/target socket: the closure variables of its handler
  dsock,          \* per data connection: "none", "open", "ended", "destroyed",
                  \* "closed"
  dconn,          \* per data connection: the closure variables of its join
  pendingConnections, \* Map connectionId -> pending connection
  timers,         \* the armed setTimeout callbacks of pending connections
  generated,      \* the ids genConnectionId has returned
  received,       \* per user/target socket: the bytes the server wrote to it
  timedOut,       \* the user/target sockets a deadline callback destroyed
  sent,           \* per control socket: the messages the server wrote to it
  first,          \* per control socket: the kind of its first line
  dbError,        \* per control socket: getClientByToken rejected
  deadline,       \* per control socket: time left on heartbeatTimer, in 10 s
  quiet,          \* per control socket: time since the agent's last heartbeat
  beats,          \* per control socket: the heartbeats the agent has sent
  inbox,          \* per control socket: the agent's lines the server has not read
  seen,           \* per control socket: how many of sent the agent has handled
  lsock,          \* agent: per local user socket, its state and handler closure,
                  \* the bytes written to it (got), the number of payload
                  \* bytes its user has sent (pay) and the bytes of it the
                  \* agent wrote to the data socket (out)
  pendingLocalConnections, \* agent: Map connectionId -> local user socket
  job,            \* agent: per connectionId, the data socket it opened for it
  dgot,           \* per data connection: the bytes the server wrote to it
  upay,           \* per user socket: the payload bytes the user has sent
  trafficCounters, \* Map portForwardId -> {bytesIn, bytesOut}
  trafficLog,     \* the rows of table traffic_stats, in the order of insertion
  flushing,       \* the flushTrafficCounters calls in progress: per call the
                  \* rows it has still to insert, the first one awaited
  exited,         \* process.exit was called in the server
  arrived,        \* per control socket: the lines read after the handshake line
  handled,        \* per control socket: the lines handed to handleMessage
  controlSocket,  \* agent: this.controlSocket as the state of that socket:
                  \* "null", "connecting", "open", "destroyed"
  link,           \* agent: the server's socket of its control connection
  connected,      \* agent: this.connected
  reconnectTimer, \* agent: the setTimeout of handleDisconnect is armed
  attempts,       \* agent: the calls of connect() so far
  reverseServers, \* agent: Map name -> net.Server of its reverse listeners
  socksServers,   \* agent: Map name -> net.Server of its SOCKS5 listeners
  made,           \* agent: the net.Servers it has created so far
  udpSessions,    \* agent: the connectionIds that have a UDP session
  crashed,        \* agent: an uncaught exception has ended its process
  second,         \* per control socket: where the call of onData stands that a
                  \* chunk started while the token lookup of the first call
                  \* was awaited ("none" when there is no such call)
  wire,           \* the bytes a SOCKS5 user sends in all, by their parts
  cut,            \* how many of them the negotiator has been handed
  chunks,         \* in how many chunks
  neg             \* the closure variables of the SOCKS5 negotiator and what
                  \* it has done so far

svars == <<alive, pc, isControl, token, clientId, hbTimer, todo>>
lvars == <<clientSockets, proxyServers, clients, servers>>
avars == <<enabled, rl, changes, queued, saves>>
tvars == <<usock, pendingConnections>>
qvars == <<uconn, dsock, dconn, timers, generated, received, timedOut>>
pvars == <<tvars, qvars>>
ovars == <<sent, first, dbError>>
hvars == <<deadline, quiet, beats>>
gvars == <<inbox, seen, lsock, pendingLocalConnections, job>>
bvars == <<dgot, upay>>
xvars == <<trafficCounters, trafficLog, flushing, exited>>
kvars == <<arrived, handled>>
nvars == <<controlSocket, link, connected, reconnectTimer, attempts,
           reverseServers, socksServers, made, udpSessions, crashed>>
yvars == <<second>>
zvars == <<wire, cut, chunks, neg>>
vars == <<svars, lvars, avars, pvars, ovars, hvars, gvars, bvars, xvars, kvars,
          nvars, yvars, zvars>>

\* ------------------------------------------------------- catalog adapter
\* A lookup by token that leaves out AND enabled = 1: the row of a disabled
\* client is found.
getClientByTokenAnyRow(tok) ==
  CASE tok = "tokA" -> "A"
    [] tok = "tokB" -> "B"
    [] tok = "tokOff" -> "A"
    [] OTHER -> "none"

\* getClientByToken: SELECT * FROM clients WHERE token = ? AND enabled = 1.
getClientByToken(tok) ==
  CASE tok = "tokA" -> "A"
    [] tok = "tokB" -> "B"
    [] OTHER -> "none"

\* ORDER BY remote_port of a set of rows (ties in row order).
RECURSIVE OrderByRemotePort(_)
OrderByRemotePort(S) ==
  IF S = {} THEN <<>>
  ELSE LET f == CHOOSE x \in S : \A y \in S :
                   \/ Forwards[x].remote_port < Forwards[y].remote_port
                   \/ /\ Forwards[x].remote_port = Forwards[y].remote_port
                      /\ x <= y
       IN <<f>> \o OrderByRemotePort(S \ {f})

\* getPortForwardsByClient: the enabled rows of one client, by remote_port.
getPortForwardsByClient(a) ==
  OrderByRemotePort({f \in enabled : Forwards[f].client = a})

\* ------------------------------------------------------------- listeners
\* The directions for which createClientProxies calls createProxyServer.
BindsOnServer(f) == Forwards[f].direction \in {"forward", "dynamic"}

\* proxyServer.listen(remotePort): the bind succeeds unless some net.Server
\* holds the port (EADDRINUSE, the "error" event of line 657).
PortFree(p) == \A x \in servers : x.port # p

\* No listen callback is due.  net.Server.listen(port) binds at the call and
\* emits "listening" (or "error") through process.nextTick, and an await
\* resumes in a microtask: both run before the event loop delivers the next
\* socket event, timer or query result, so those wait for NoTick.
NoTick == \A x \in servers : x.reg

\* The loop of createClientProxies up to its next listen: forwards of a
\* reverse direction are only logged, and createProxyServer returns at once
\* for a port that is a key of proxyServers.
RECURSIVE NextBind(_, _)
NextBind(sq, has) ==
  IF sq = <<>> THEN [kind |-> "done", fwd |-> 0, rest |-> <<>>]
  ELSE IF BindsOnServer(Head(sq)) /\ Forwards[Head(sq)].remote_port \notin has
       THEN [kind |-> "listen", fwd |-> Head(sq), rest |-> Tail(sq)]
       ELSE NextBind(Tail(sq), has)

\* The net.Server createProxyServer makes for forward f on behalf of control
\* socket s; by names the caller that awaits the listen ("auth" or
\* "reload") and reg says that its listen callback ran.
Server(s, f, by, reg) ==
  [port |-> Forwards[f].remote_port, ctl |-> s, fwd |-> f, by |-> by,
   reg |-> reg]

\* A Map without entries.
EmptyMap == [x \in {} |-> 0]

SeqToSet(sq) == {sq[i] : i \in DOMAIN sq}

\* Map.set(key, val), and Map.delete for a set of keys.
MapSet(m, key, val) ==
  [k \in DOMAIN m \cup {key} |-> IF k = key THEN val ELSE m[k]]
MapDelete(m, keys) == [k \in DOMAIN m \ keys |-> m[k]]

\* An end() that leaves the socket as it is.
EndedKeepsOpen(st) == st

\* end() and destroy() of a user, target or data socket, as the state the
\* socket is in afterwards.
Ended(st) == IF st = "open" THEN "ended" ELSE st
Torn(st) == IF st \in {"open", "ended"} THEN "destroyed" ELSE st

\* socket.destroy(): the "close" event follows later.
Destroyed(s) == [alive EXCEPT ![s] = IF @ = "open" THEN "closing" ELSE @]

\* A cleanupClient that closes the socket's proxy servers but keeps the
\* socket's port list (no this.clients.delete(socket)): the ports stay owned
\* by the ended session.
CleanupListenersKeepsList(s) ==
  LET ports == IF s \in DOMAIN clients THEN SeqToSet(clients[s]) ELSE {}
      gone  == ports \cap DOMAIN proxyServers
  IN /\ servers' = {x \in servers : ~(x.reg /\ x.port \in gone)}
     /\ proxyServers' = [p \in DOMAIN proxyServers \ gone |-> proxyServers[p]]
     /\ clients' = clients
     /\ clientSockets' =
          IF clientId[s] # "none"
          THEN [a \in DOMAIN clientSockets \ {clientId[s]} |-> clientSockets[a]]
          ELSE clientSockets

\* cleanupClient(socket), the listener and registry part: close and forget
\* every proxy server on a port of the socket's list, forget the list, and
\* delete the registry entry of socket.clientId.
CleanupListeners(s) ==
  LET ports == IF s \in DOMAIN clients THEN SeqToSet(clients[s]) ELSE {}
      gone  == ports \cap DOMAIN proxyServers
  IN /\ servers' = {x \in servers : ~(x.reg /\ x.port \in gone)}
     /\ proxyServers' = [p \in DOMAIN proxyServers \ gone |-> proxyServers[p]]
     /\ clients' = [t \in DOMAIN clients \ {s} |-> clients[t]]
     /\ clientSockets' =
          IF clientId[s] # "none"
          THEN [a \in DOMAIN clientSockets \ {clientId[s]} |-> clientSockets[a]]
          ELSE clientSockets

\* A cleanup that deletes every pending connection, whoever owns it.
CleanupAllPendings(s) ==
  LET owned == DOMAIN pendingConnections
      socks == {pendingConnections[c].clientSocket : c \in owned}
                 \cup {pendingConnections[c].targetSocket : c \in owned}
  IN /\ usock' = [u \in USocks |->
                    IF u \in socks THEN Torn(usock[u]) ELSE usock[u]]
     /\ pendingConnections' =
          [c \in DOMAIN pendingConnections \ owned |-> pendingConnections[c]]

\* cleanupClient(socket), lines 850-863: every pending connection whose
\* ownerClientId is socket.clientId is deleted and its sockets are destroyed.
CleanupPendings(s) ==
  LET owned == IF clientId[s] = "none" THEN {}
               ELSE {c \in DOMAIN pendingConnections :
                       pendingConnections[c].ownerClientId = clientId[s]}
      socks == {pendingConnections[c].clientSocket : c \in owned}
                 \cup {pendingConnections[c].targetSocket : c \in owned}
  IN /\ usock' = [u \in USocks |->
                    IF u \in socks THEN Torn(usock[u]) ELSE usock[u]]
     /\ pendingConnections' =
          [c \in DOMAIN pendingConnections \ owned |-> pendingConnections[c]]

cleanupClient(s) == CleanupListeners(s) /\ CleanupPendings(s)

\* A user/target socket that no handler holds yet, and a data connection
\* that joined nothing.
NoConn == [mode |-> "none", ctl |-> 0, fwd |-> 0, id |-> 0]
NoJoin == [id |-> 0, peer |-> 0, rest |-> <<>>, mark |-> 0, live |-> FALSE,
           later |-> 0, pre |-> 0]

\* A local user socket the agent has not accepted, and a connectionId the
\* agent opened no data socket for.
NoLocal == [st |-> "none", mode |-> "none", fwd |-> 0, id |-> 0, got |-> <<>>,
            pay |-> 0, out |-> <<>>]
NoJob == [st |-> "none", d |-> 0, kind |-> "none"]

\* No reloadClientPortForwards call in progress.
Idle == [pc |-> "idle", sock |-> 0, todo |-> <<>>, list |-> <<>>]

\* A message the server writes to a control socket: its type, the
\* connectionId or success flag it carries (0 for none), and its portForwards
\* as the list of row ids.  socket.write on a socket that is no longer open
\* sends nothing.
Msg(type, id, list) == [type |-> type, id |-> id, list |-> list]
Write(s, m) ==
  [sent EXCEPT ![s] = IF alive[s] = "open" THEN Append(@, m) ELSE @]

\* ------------------------------------------------------------------ Init
\* A user of a SOCKS5 proxy server who sends nothing, and the closure
\* variables of handleSocks5ForwardConnection at its start: buf, stage and
\* clientPreData, with what the negotiator has written to the user, the
\* target it has extracted and the number of pending connections it has
\* stored.
NoWire == [greet |-> <<>>, atyp |-> 0, addr |-> <<>>, port |-> <<>>,
           tail |-> <<>>]
NegStart == [buf |-> <<>>, stage |-> "greet", clientPreData |-> <<>>,
             written |-> <<>>, targetHost |-> <<>>, targetPort |-> 0,
             pendings |-> 0]

\* The state after construction and start(), whatever the catalog holds and
\* whatever a SOCKS5 user is to send.
Started ==
  /\ alive = [s \in CSocks |-> "none"]
  /\ pc = [s \in CSocks |-> "new"]
  /\ isControl = [s \in CSocks |-> FALSE]
  /\ token = [s \in CSocks |-> "none"]
  /\ clientId = [s \in CSocks |-> "none"]
  /\ hbTimer = [s \in CSocks |-> FALSE]
  /\ todo = [s \in CSocks |-> <<>>]
  /\ clientSockets = EmptyMap
  /\ proxyServers = EmptyMap
  /\ clients = EmptyMap
  /\ rl = [a \in Agents |-> Idle]
  /\ changes = 0
  /\ queued = [a \in Agents |-> <<>>]
  /\ saves = 0
  /\ usock = [u \in USocks |-> "none"]
  /\ uconn = [u \in USocks |-> NoConn]
  /\ dsock = [d \in DSocks |-> "none"]
  /\ dconn = [d \in DSocks |-> NoJoin]
  /\ pendingConnections = EmptyMap
  /\ timers = {}
  /\ generated = {}
  /\ received = [u \in USocks |-> <<>>]
  /\ timedOut = {}
  /\ sent = [s \in CSocks |-> <<>>]
  /\ first = [s \in CSocks |-> "none"]
  /\ dbError = [s \in CSocks |-> FALSE]
  /\ deadline = [s \in CSocks |-> 0]
  /\ quiet = [s \in CSocks |-> 0]
  /\ beats = [s \in CSocks |-> 0]
  /\ inbox = [s \in CSocks |-> <<>>]
  /\ seen = [s \in CSocks |-> 0]
  /\ lsock = [l \in LSocks |-> NoLocal]
  /\ pendingLocalConnections = EmptyMap
  /\ job = [c \in ConnIds |-> NoJob]
  /\ dgot = [d \in DSocks |-> <<>>]
  /\ upay = [u \in USocks |-> 0]
  /\ trafficCounters = EmptyMap
  /\ trafficLog = <<>>
  /\ flushing = <<>>
  /\ exited = FALSE
  /\ arrived = [s \in CSocks |-> <<>>]
  /\ handled = [s \in CSocks |-> <<>>]
  /\ controlSocket = "null"
  /\ link = 0
  /\ connected = FALSE
  /\ reconnectTimer = FALSE
  /\ attempts = 0
  /\ reverseServers = EmptyMap
  /\ socksServers = EmptyMap
  /\ made = 0
  /\ udpSessions = {}
  /\ crashed = FALSE
  /\ second = [s \in CSocks |-> "none"]
  /\ cut = 0
  /\ chunks = 0
  /\ neg = NegStart
     \* controlServer.listen(port) of start()
  /\ servers = {[port |-> BindPort, ctl |-> 0, fwd |-> 0, by |-> "start",
                 reg |-> TRUE]}

Boot == Started /\ wire = NoWire

Init == enabled \in Catalogs /\ Boot

\* ------------------------------------------------------- control sessions
\* The control server accepts a connection: handleControlConnection(socket).
Accept(s) ==
  /\ NoTick
  /\ ~exited
  /\ UNCHANGED <<hvars, yvars, zvars>>
  /\ UNCHANGED gvars
  /\ UNCHANGED kvars
  /\ UNCHANGED bvars
  /\ UNCHANGED xvars
  /\ UNCHANGED nvars
  /\ UNCHANGED ovars
  /\ alive[s] = "none"
  /\ \A t \in CSocks : t < s => alive[t] # "none"
  /\ alive' = [alive EXCEPT ![s] = "open"]
  /\ UNCHANGED <<avars, pc, isControl, token, clientId, hbTimer, todo,
                 clientSockets, proxyServers, clients, servers>>
  /\ UNCHANGED pvars

\* onData, first line {type: "control_handshake", token}: up to the await of
\* getClientByToken; without a token the socket is destroyed at once.
Handshake(s, tok) ==
  /\ NoTick
  /\ ~exited
  /\ UNCHANGED <<hvars, yvars, zvars>>
  /\ UNCHANGED gvars
  /\ UNCHANGED kvars
  /\ UNCHANGED bvars
  /\ UNCHANGED xvars
  /\ UNCHANGED nvars
  /\ alive[s] = "open"
  /\ pc[s] = "new"
  /\ isControl' = [isControl EXCEPT ![s] = TRUE]
  /\ first' = [first EXCEPT ![s] = "handshake"]
  /\ UNCHANGED dbError
  /\ IF tok = "none"
     THEN /\ sent' = Write(s, Msg("auth_response", 0, <<>>))
          /\ alive' = Destroyed(s)
          /\ pc' = [pc EXCEPT ![s] = "dead"]
          /\ UNCHANGED token
     ELSE /\ pc' = [pc EXCEPT ![s] = "auth"]
          /\ token' = [token EXCEPT ![s] = tok]
          /\ UNCHANGED <<alive, sent>>
  /\ UNCHANGED <<avars, clientId, hbTimer, todo,
                 clientSockets, proxyServers, clients, servers>>
  /\ UNCHANGED pvars

\* A first line that is malformed JSON, or whose type is neither
\* data_connection nor control_handshake (lines 225-237): socket.destroy().
BadFirstLine(s, kind) ==
  /\ NoTick
  /\ ~exited
  /\ UNCHANGED <<hvars, yvars, zvars>>
  /\ UNCHANGED gvars
  /\ UNCHANGED kvars
  /\ UNCHANGED bvars
  /\ UNCHANGED xvars
  /\ UNCHANGED nvars
  /\ alive[s] = "open"
  /\ pc[s] = "new"
  /\ first' = [first EXCEPT ![s] = kind]
  /\ alive' = Destroyed(s)
  /\ pc' = [pc EXCEPT ![s] = "dead"]
  /\ UNCHANGED <<avars, isControl, token, clientId, hbTimer, todo, lvars,
                 pvars, sent, dbError>>

\* getClientByToken resolves with a row or with none, or rejects (err):
\* lines 136-166 and on to the await of line 186.  The continuation does not
\* look at the state of the socket.
AuthDone(s, err) ==
  /\ NoTick
  /\ ~exited
  /\ UNCHANGED <<hvars, yvars, zvars>>
  /\ UNCHANGED gvars
  /\ UNCHANGED kvars
  /\ UNCHANGED bvars
  /\ UNCHANGED xvars
  /\ UNCHANGED nvars
  /\ pc[s] = "auth"
  /\ dbError' = [dbError EXCEPT ![s] = err]
  /\ UNCHANGED first
  /\ LET client == IF err THEN "none" ELSE getClientByToken(token[s])
     IN IF client # "none"
        THEN /\ clientId' = [clientId EXCEPT ![s] = client]
             /\ clientSockets' =
                  [a \in DOMAIN clientSockets \cup {client} |->
                     IF a = client THEN s ELSE clientSockets[a]]
             /\ pc' = [pc EXCEPT ![s] = "fwds"]
             /\ UNCHANGED <<alive, sent>>
        ELSE /\ sent' = Write(s, Msg("auth_response", 0, <<>>))
             /\ alive' = Destroyed(s)
             /\ pc' = [pc EXCEPT ![s] = "dead"]
             /\ UNCHANGED <<clientId, clientSockets>>
  /\ UNCHANGED <<avars, isControl, token, hbTimer, todo,
                 proxyServers, clients, servers>>
  /\ UNCHANGED pvars

\* getPortForwardsByClient of line 186 resolves: auth_response is written,
\* the heartbeat timeout starts, and createClientProxies runs up to its own
\* await of getPortForwardsByClient.
FwdsDone(s) ==
  /\ NoTick
  /\ ~exited
  /\ pc[s] = "fwds"
  /\ deadline' = [deadline EXCEPT ![s] = HeartbeatDeadline]
  /\ quiet' = [quiet EXCEPT ![s] = 0]
  /\ UNCHANGED beats
  /\ UNCHANGED <<yvars, zvars>>
  /\ UNCHANGED <<first, dbError, gvars, bvars, xvars, kvars, nvars>>
  /\ sent' = Write(s, Msg("auth_response", 1,
                          getPortForwardsByClient(clientId[s])))
  /\ hbTimer' = [hbTimer EXCEPT ![s] = TRUE]
  /\ pc' = [pc EXCEPT ![s] = "proxies"]
  /\ UNCHANGED <<avars, alive, isControl, token, clientId, todo,
                 clientSockets, proxyServers, clients, servers>>
  /\ UNCHANGED pvars

\* createClientProxies from forward list sq on: runs to the next listen, to
\* the rejection of a listen (the catch around the loop ends it) or to the
\* end of the list, where onData installs the control-message handler.
RunProxies(s, sq) ==
  LET nb == NextBind(sq, DOMAIN proxyServers)
  IN IF nb.kind = "listen" /\ PortFree(Forwards[nb.fwd].remote_port)
     THEN /\ servers' = servers \cup {Server(s, nb.fwd, "auth", FALSE)}
          /\ pc' = [pc EXCEPT ![s] = "listen"]
          /\ todo' = [todo EXCEPT ![s] = nb.rest]
     ELSE /\ pc' = [pc EXCEPT ![s] = "steady"]
          /\ todo' = [todo EXCEPT ![s] = <<>>]
          /\ UNCHANGED servers

\* getPortForwardsByClient of createClientProxies resolves.
ProxiesQueried(s) ==
  /\ NoTick
  /\ ~exited
  /\ UNCHANGED <<hvars, yvars, zvars>>
  /\ UNCHANGED gvars
  /\ UNCHANGED kvars
  /\ UNCHANGED bvars
  /\ UNCHANGED xvars
  /\ UNCHANGED nvars
  /\ UNCHANGED ovars
  /\ pc[s] = "proxies"
  /\ RunProxies(s, getPortForwardsByClient(clientId[s]))
  /\ UNCHANGED <<avars, alive, isControl, token, clientId, hbTimer,
                 clientSockets, proxyServers, clients>>
  /\ UNCHANGED pvars

\* The listen callback of createProxyServer (lines 639-655) for the server
\* the handshake of s waits for, and the loop of createClientProxies resumed.
ListenDone(s) ==
  /\ ~exited
  /\ UNCHANGED <<hvars, yvars, zvars>>
  /\ UNCHANGED gvars
  /\ UNCHANGED kvars
  /\ UNCHANGED bvars
  /\ UNCHANGED xvars
  /\ UNCHANGED nvars
  /\ pc[s] = "listen"
  /\ UNCHANGED ovars
  /\ \E x \in servers :
       /\ x.ctl = s /\ x.by = "auth" /\ ~x.reg
       /\ proxyServers' =
            [p \in DOMAIN proxyServers \cup {x.port} |->
               IF p = x.port THEN [controlSocket |-> s, portForwardId |-> x.fwd]
               ELSE proxyServers[p]]
       /\ clients' =
            [t \in DOMAIN clients \cup {s} |->
               IF t = s
               THEN (IF s \in DOMAIN clients THEN clients[s] ELSE <<>>)
                      \o <<x.port>>
               ELSE clients[t]]
       /\ LET nb == NextBind(todo[s], DOMAIN proxyServers')
              registered == (servers \ {x}) \cup {[x EXCEPT !.reg = TRUE]}
          IN IF nb.kind = "listen" /\ PortFree(Forwards[nb.fwd].remote_port)
             THEN /\ servers' = registered \cup {Server(s, nb.fwd, "auth", FALSE)}
                  /\ pc' = [pc EXCEPT ![s] = "listen"]
                  /\ todo' = [todo EXCEPT ![s] = nb.rest]
             ELSE /\ servers' = registered
                  /\ pc' = [pc EXCEPT ![s] = "steady"]
                  /\ todo' = [todo EXCEPT ![s] = <<>>]
  /\ UNCHANGED <<avars, alive, isControl, token, clientId, hbTimer,
                 clientSockets>>
  /\ UNCHANGED pvars

\* A further chunk arrives while getClientByToken is awaited.  onData is
\* still the data handler and handshakeComplete is still false (it is set
\* at line 181, after the await), so the call finds the newline of the
\* handshake line in its buffer, parses that line again and awaits a
\* getClientByToken of its own (lines 105-135).
MoreData(s) ==
  /\ NoTick
  /\ ~exited
  /\ alive[s] = "open"
  /\ pc[s] = "auth"
  /\ second[s] = "none"
  /\ second' = [second EXCEPT ![s] = "auth"]
  /\ UNCHANGED <<svars, lvars, avars, pvars, ovars, hvars, gvars, bvars, xvars,
                 kvars, nvars, zvars>>

\* The getClientByToken of that second call resolves or rejects, after the
\* one of the first call (lines 136-186).
AuthAgain(s, err) ==
  /\ NoTick
  /\ ~exited
  /\ second[s] = "auth"
  /\ pc[s] # "auth"
  /\ LET client == IF err THEN "none" ELSE getClientByToken(token[s])
     IN IF client # "none"
        THEN /\ clientId' = [clientId EXCEPT ![s] = client]
             /\ clientSockets' = MapSet(clientSockets, client, s)
             /\ second' = [second EXCEPT ![s] = "fwds"]
             /\ UNCHANGED <<alive, sent>>
        ELSE /\ sent' = Write(s, Msg("auth_response", 0, <<>>))
             /\ alive' = Destroyed(s)
             /\ second' = [second EXCEPT ![s] = "dead"]
             /\ UNCHANGED <<clientId, clientSockets>>
  /\ UNCHANGED <<pc, isControl, token, hbTimer, todo, proxyServers, clients,
                 servers, first, dbError>>
  /\ UNCHANGED <<avars, pvars, hvars, gvars, bvars, xvars, kvars, nvars, zvars>>

\* The getPortForwardsByClient of the second call resolves (lines 186-218):
\* it writes an auth_response of its own, starts the heartbeat timeout anew
\* and calls createClientProxies.
FwdsAgain(s) ==
  /\ NoTick
  /\ ~exited
  /\ second[s] = "fwds"
  /\ pc[s] \notin {"auth", "fwds"}
  /\ sent' = Write(s, Msg("auth_response", 1,
                          getPortForwardsByClient(clientId[s])))
  /\ hbTimer' = [hbTimer EXCEPT ![s] = TRUE]
  /\ deadline' = [deadline EXCEPT ![s] = HeartbeatDeadline]
  /\ second' = [second EXCEPT ![s] = "proxies"]
  /\ UNCHANGED <<alive, pc, isControl, token, clientId, todo, lvars, first,
                 dbError, quiet, beats>>
  /\ UNCHANGED <<avars, pvars, gvars, bvars, xvars, kvars, nvars, zvars>>

\* The forwards of list sq for which a run of createClientProxies gets a
\* listener, has being the keys of proxyServers and held the ports that
\* some net.Server holds: a port among the keys is passed over (line 623),
\* and the rejection of a listen ends the loop (line 616).
RECURSIVE Bound(_, _, _)
Bound(sq, has, held) ==
  IF sq = <<>> THEN <<>>
  ELSE LET p == Forwards[Head(sq)].remote_port
       IN IF ~BindsOnServer(Head(sq)) \/ p \in has
          THEN Bound(Tail(sq), has, held)
          ELSE IF p \in held THEN <<>>
          ELSE <<Head(sq)>> \o Bound(Tail(sq), has \cup {p}, held \cup {p})

\* The getPortForwardsByClient of the second call's createClientProxies
\* resolves, after the first call's createClientProxies is through (lines
\* 590-618, each listen with its callback, which runs before any other
\* event), and the call installs a control-message handler of its own
\* (lines 221-224).
ProxiesAgain(s) ==
  /\ NoTick
  /\ ~exited
  /\ second[s] = "proxies"
  /\ pc[s] \notin {"fwds", "proxies", "listen"}
  /\ LET bs == Bound(getPortForwardsByClient(clientId[s]),
                     DOMAIN proxyServers, {x.port : x \in servers})
         ps == [i \in DOMAIN bs |-> Forwards[bs[i]].remote_port]
     IN /\ servers' = servers \cup {Server(s, f, "auth", TRUE) :
                                      f \in SeqToSet(bs)}
        /\ proxyServers' =
             [p \in DOMAIN proxyServers \cup SeqToSet(ps) |->
                IF p \in DOMAIN proxyServers THEN proxyServers[p]
                ELSE [controlSocket |-> s,
                      portForwardId |->
                        CHOOSE f \in SeqToSet(bs) :
                          Forwards[f].remote_port = p]]
        /\ clients' =
             IF bs = <<>> THEN clients
             ELSE MapSet(clients, s,
                         (IF s \in DOMAIN clients THEN clients[s] ELSE <<>>)
                           \o ps)
  /\ second' = [second EXCEPT ![s] = "done"]
  /\ UNCHANGED <<svars, clientSockets, ovars>>
  /\ UNCHANGED <<avars, pvars, hvars, gvars, bvars, xvars, kvars, nvars, zvars>>

\* socket.on("end") / socket.on("error"): the timer is cleared, and a
\* control connection is cleaned up.
End(s) ==
  /\ NoTick
  /\ ~exited
  /\ UNCHANGED <<hvars, yvars, zvars>>
  /\ UNCHANGED gvars
  /\ UNCHANGED kvars
  /\ UNCHANGED bvars
  /\ UNCHANGED xvars
  /\ UNCHANGED nvars
  /\ UNCHANGED ovars
  /\ alive[s] = "open"
  /\ alive' = [alive EXCEPT ![s] = "closing"]
  /\ hbTimer' = [hbTimer EXCEPT ![s] = FALSE]
  /\ IF isControl[s] THEN cleanupClient(s)
     ELSE UNCHANGED <<lvars, tvars>>
  /\ UNCHANGED <<avars, pc, isControl, token, clientId, todo>>
  /\ UNCHANGED qvars

\* socket.on("close"): the last event of a socket.
Close(s) ==
  /\ NoTick
  /\ ~exited
  /\ UNCHANGED <<hvars, yvars, zvars>>
  /\ UNCHANGED gvars
  /\ UNCHANGED kvars
  /\ UNCHANGED bvars
  /\ UNCHANGED xvars
  /\ UNCHANGED nvars
  /\ UNCHANGED ovars
  /\ alive[s] = "closing"
  /\ alive' = [alive EXCEPT ![s] = "closed"]
  /\ hbTimer' = [hbTimer EXCEPT ![s] = FALSE]
  /\ IF isControl[s] THEN cleanupClient(s)
     ELSE UNCHANGED <<lvars, tvars>>
  /\ UNCHANGED <<avars, pc, isControl, token, clientId, todo>>
  /\ UNCHANGED qvars

\* The callback of startHeartbeatTimeout, 40 s without a heartbeat:
\* cleanupClient(socket); socket.destroy().
HeartbeatTimeout(s) ==
  /\ NoTick
  /\ ~exited
  /\ UNCHANGED <<hvars, yvars, zvars>>
  /\ UNCHANGED gvars
  /\ UNCHANGED kvars
  /\ UNCHANGED bvars
  /\ UNCHANGED xvars
  /\ UNCHANGED nvars
  /\ UNCHANGED ovars
  /\ hbTimer[s]
  /\ hbTimer' = [hbTimer EXCEPT ![s] = FALSE]
  /\ cleanupClient(s)
  /\ alive' = Destroyed(s)
  /\ UNCHANGED <<avars, pc, isControl, token, clientId, todo>>
  /\ UNCHANGED qvars

\* The agent sends a heartbeat line and the server reads it.  After the
\* handshake the control-message handler hands it to handleMessage, which
\* restarts the heartbeat timeout and writes heartbeat_ack (lines 441-447);
\* while createClientProxies is awaited the data handler is still onData,
\* which appends the chunk to its buffer and, handshakeComplete being true,
\* does nothing with it (lines 104-109).
Heartbeat(s) ==
  /\ NoTick
  /\ ~exited
  /\ alive[s] = "open"
  /\ pc[s] \in {"proxies", "steady"}
  /\ beats[s] < MaxBeats
  /\ beats' = [beats EXCEPT ![s] = @ + 1]
  /\ quiet' = [quiet EXCEPT ![s] = 0]
  /\ UNCHANGED <<yvars, zvars>>
  /\ IF pc[s] = "steady"
     THEN /\ hbTimer' = [hbTimer EXCEPT ![s] = TRUE]
          /\ deadline' = [deadline EXCEPT ![s] = HeartbeatDeadline]
          /\ sent' = Write(s, Msg("heartbeat_ack", 0, <<>>))
     ELSE UNCHANGED <<hbTimer, deadline, sent>>
  /\ UNCHANGED <<avars, alive, pc, isControl, token, clientId, todo, lvars,
                 pvars, first, dbError, gvars, bvars, xvars, kvars, nvars>>

\* 10 s pass.  A timer that is due fires before more time passes.
Tick ==
  /\ NoTick
  /\ ~exited
  /\ \E s \in CSocks : hbTimer[s]
  /\ \A s \in CSocks : hbTimer[s] => deadline[s] > 0
  /\ deadline' = [s \in CSocks |->
                    IF hbTimer[s] THEN deadline[s] - 1 ELSE deadline[s]]
  /\ quiet' = [s \in CSocks |->
                 IF hbTimer[s] /\ quiet[s] < HeartbeatDeadline
                 THEN quiet[s] + 1 ELSE quiet[s]]
  /\ UNCHANGED <<svars, lvars, avars, pvars, ovars, beats, gvars, bvars,
                 xvars, kvars, nvars, yvars, zvars>>

\* The heartbeat timeout runs when its 40 s are over.
Expire(s) ==
  /\ deadline[s] = 0
  /\ HeartbeatTimeout(s)

\* ------------------------------------------------------- pending table
\* The proxyType createClientProxies hands to createProxyServer.
ProxyType(f) ==
  IF Forwards[f].direction = "dynamic" THEN "socks5"
  ELSE Forwards[f].proxy_type

\* The pending connection handleProxyConnection and
\* handleSocks5ForwardConnection store for a user socket, and the one the
\* connect callback of a server-side dial stores for its target socket.
\* Socket 0 stands for an absent field.
ClientPending(u, f, owner) ==
  [clientSocket |-> u, targetSocket |-> 0, portForwardId |-> f,
   ownerClientId |-> owner, timer |-> TRUE, clientPreData |-> <<>>]
TargetPending(u, f) ==
  [clientSocket |-> 0, targetSocket |-> u, portForwardId |-> f,
   ownerClientId |-> "none", timer |-> FALSE, clientPreData |-> <<>>]

\* The setTimeout callback of a pending connection: it names the
\* connectionId and the socket of its closure, and the field of the pending
\* connection it compares the socket with.
Timer(c, u, field) == [id |-> c, sock |-> u, field |-> field]

\* The first socket of a pool that was not used yet.
FirstUnused(state, u) ==
  /\ state[u] = "none"
  /\ \A v \in DOMAIN state : v < u => state[v] # "none"

\* The data connections spliced to user/target socket u: socket.pipe both
\* ways.  While u has none, the data handler of its SOCKS5 negotiation is
\* still attached.
Pipes(u) == {d \in DSocks : dconn[d].peer = u}

\* incrementTraffic(portForwardId, bytesIn, bytesOut), as the new value of
\* trafficCounters.
incrementTraffic(portForwardId, bytesIn, bytesOut) ==
  LET counter == IF portForwardId \in DOMAIN trafficCounters
                 THEN trafficCounters[portForwardId]
                 ELSE [bytesIn |-> 0, bytesOut |-> 0]
  IN MapSet(trafficCounters, portForwardId,
            [bytesIn |-> counter.bytesIn + bytesIn,
             bytesOut |-> counter.bytesOut + bytesOut])

\* The join of socket u took the forward branch of
\* handleIncomingDataConnection: u is the clientSocket of its pending
\* connection, not the targetSocket.
ForwardMode(u) == uconn[u].mode \in {"tcp", "socks5"}

\* write(data) on user/target socket u with data.length = n, as the new value
\* of trafficCounters.  Every join of u has wrapped the write of u once more
\* (lines 330-337, 384-390): each wrapper counts n, as bytesIn in the forward
\* branch and as bytesOut in the reverse branch, when n > 0.
PeerWrite(u, n) ==
  LET k == Cardinality(Pipes(u)) * n
  IN IF k = 0 THEN trafficCounters
     ELSE IF ForwardMode(u) THEN incrementTraffic(uconn[u].fwd, k, 0)
     ELSE incrementTraffic(uconn[u].fwd, 0, k)

\* write(data) with data.length = 1 on each of k data connections spliced to
\* socket u (lines 321-328, 376-382): counted as bytesOut in the forward
\* branch and as bytesIn in the reverse branch.
DataWrite(u, k) ==
  IF k = 0 THEN trafficCounters
  ELSE IF ForwardMode(u) THEN incrementTraffic(uconn[u].fwd, 0, k)
  ELSE incrementTraffic(uconn[u].fwd, k, 0)

\* A user connects to the proxy server x (the connection callback of
\* createProxyServer): handleProxyConnection stores a pending connection
\* under a fresh id, writes new_connection and arms the deadline;
\* handleSocks5ForwardConnection only installs its handlers.
UserConnect(u, x) ==
  /\ NoTick
  /\ ~exited
  /\ UNCHANGED <<hvars, yvars, zvars>>
  /\ UNCHANGED gvars
  /\ UNCHANGED kvars
  /\ UNCHANGED bvars
  /\ UNCHANGED xvars
  /\ UNCHANGED nvars
  /\ UNCHANGED <<first, dbError>>
  /\ x \in servers /\ x.by # "start" /\ x.reg
  /\ FirstUnused(usock, u)
  /\ usock' = [usock EXCEPT ![u] = "open"]
  /\ IF ProxyType(x.fwd) = "socks5"
     THEN /\ uconn' = [uconn EXCEPT ![u] =
                         [mode |-> "socks5", ctl |-> x.ctl, fwd |-> x.fwd,
                          id |-> 0]]
          /\ UNCHANGED <<pendingConnections, timers, generated, sent>>
     ELSE \E c \in ConnIds \ generated :
          /\ generated' = generated \cup {c}
          /\ uconn' = [uconn EXCEPT ![u] =
                         [mode |-> "tcp", ctl |-> x.ctl, fwd |-> x.fwd,
                          id |-> c]]
          /\ pendingConnections' =
               MapSet(pendingConnections, c, ClientPending(u, x.fwd, "none"))
          /\ sent' = Write(x.ctl, Msg("new_connection", c, <<x.fwd>>))
          /\ timers' = timers \cup {Timer(c, u, "clientSocket")}
  /\ UNCHANGED <<svars, lvars, avars, dsock, dconn, received, timedOut>>

\* onData of handleSocks5ForwardConnection with the greeting and a request
\* of command cmd and address type atyp, followed in the same chunk by n
\* payload bytes: 05 00 is written; a command other than CONNECT is answered
\* with reply 07 and an unknown address type with reply 08, and the socket
\* is destroyed; else a pending connection with ownerClientId is stored under
\* a fresh id, dynamic_connection is written, the deadline is armed and the
\* wait stage appends the payload to clientPreData.
SocksRequest(u, cmd, atyp, n) ==
  /\ NoTick
  /\ ~exited
  /\ UNCHANGED <<hvars, yvars, zvars>>
  /\ UNCHANGED gvars
  /\ UNCHANGED kvars
  /\ UNCHANGED <<first, dbError>>
  /\ usock[u] = "open"
  /\ uconn[u].mode = "socks5" /\ uconn[u].id = 0
  /\ upay[u] + n <= MaxPayload
  /\ IF cmd # 1 \/ atyp \notin {1, 3, 4}
     THEN /\ received' = [received EXCEPT ![u] =
                            @ \o <<5, 0>>
                              \o SocksReply(IF cmd # 1 THEN 7 ELSE 8)]
          /\ usock' = [usock EXCEPT ![u] = "destroyed"]
          /\ UNCHANGED <<generated, uconn, pendingConnections, timers, sent,
                         upay>>
     ELSE /\ \E c \in ConnIds \ generated :
               /\ generated' = generated \cup {c}
               /\ uconn' = [uconn EXCEPT ![u].id = c]
               /\ pendingConnections' =
                    MapSet(pendingConnections, c,
                           [ClientPending(u, uconn[u].fwd,
                                          clientId[uconn[u].ctl])
                              EXCEPT !.clientPreData = Payload(upay[u], n)])
               /\ sent' = Write(uconn[u].ctl,
                                Msg("dynamic_connection", c, <<uconn[u].fwd>>))
               /\ timers' = timers \cup {Timer(c, u, "clientSocket")}
          /\ upay' = [upay EXCEPT ![u] = @ + n]
          /\ received' = [received EXCEPT ![u] = @ \o <<5, 0>>]
          /\ UNCHANGED usock
  /\ UNCHANGED <<svars, lvars, avars, dsock, dconn, timedOut, dgot>>
  /\ UNCHANGED <<xvars, nvars>>

\* The user of a negotiated SOCKS5 connection sends its next payload byte.
\* Until a data connection joined, onData is attached and its wait stage
\* appends the byte to clientPreData of the pending connection under its id
\* (lines 761-771); afterwards clientSocket.pipe(socket) writes it to the
\* data connections that are open.
UserData(u) ==
  /\ NoTick
  /\ ~exited
  /\ UNCHANGED <<hvars, yvars, zvars>>
  /\ UNCHANGED gvars
  /\ UNCHANGED kvars
  /\ UNCHANGED ovars
  /\ usock[u] \in {"open", "ended"}
  /\ uconn[u].mode = "socks5" /\ uconn[u].id # 0
  /\ upay[u] < MaxPayload
  /\ upay' = [upay EXCEPT ![u] = @ + 1]
  /\ LET b == Payload(upay[u], 1)
         c == uconn[u].id
     IN IF Pipes(u) = {}
        THEN /\ pendingConnections' =
                  IF c \in DOMAIN pendingConnections
                  THEN MapSet(pendingConnections, c,
                              [pendingConnections[c]
                                 EXCEPT !.clientPreData = @ \o b])
                  ELSE pendingConnections
             /\ UNCHANGED dgot
        ELSE /\ dgot' = [d \in DSocks |->
                           IF d \in Pipes(u) /\ dsock[d] = "open"
                           THEN dgot[d] \o b ELSE dgot[d]]
             /\ UNCHANGED pendingConnections
  /\ trafficCounters' =
       DataWrite(u, Cardinality({d \in Pipes(u) : dsock[d] = "open"}))
  /\ UNCHANGED <<svars, lvars, avars, usock, qvars>>
  /\ UNCHANGED <<trafficLog, flushing, exited, nvars>>

\* handleMessage, reverse_connection / reverse_dynamic naming forward f with
\* the agent's connectionId c, when the forward is found among the client's
\* rows: net.createConnection starts the dial to the target and the 10 s
\* deadline is armed.  (The lookup is awaited; nothing the continuation
\* reads changes in between.)
ReverseLookup(s, f, c, u) ==
  /\ NoTick
  /\ ~exited
  /\ UNCHANGED <<hvars, yvars, zvars>>
  /\ UNCHANGED bvars
  /\ UNCHANGED xvars
  /\ UNCHANGED nvars
  /\ UNCHANGED ovars
  /\ alive[s] = "open" /\ pc[s] = "steady"
  /\ clientId[s] # "none"
  /\ f \in enabled /\ Forwards[f].client = clientId[s]
  /\ Forwards[f].direction \in {"reverse", "reverse-dynamic"}
  /\ FirstUnused(usock, u)
  /\ usock' = [usock EXCEPT ![u] = "dialing"]
  /\ uconn' = [uconn EXCEPT ![u] =
                 [mode |-> Forwards[f].direction, ctl |-> s, fwd |-> f,
                  id |-> c]]
  /\ timers' = timers \cup {Timer(c, u, "targetSocket")}
  /\ UNCHANGED <<svars, lvars, avars, pendingConnections, dsock, dconn,
                 generated, received, timedOut>>

\* A line of the agent arrives while onData awaits createClientProxies
\* (src/src/server.js, lines 104-109, 218): onData appends it to buffer and
\* does nothing else, since handshakeComplete is set; when the await is over
\* the handler is replaced (lines 221-224) and buffer is not read again.
BufferedLine(s) ==
  /\ NoTick
  /\ ~exited
  /\ alive[s] = "open"
  /\ pc[s] \in {"proxies", "listen"}
  /\ inbox[s] # <<>>
  /\ inbox' = [inbox EXCEPT ![s] = Tail(@)]
  /\ arrived' = [arrived EXCEPT ![s] = Append(@, Head(inbox[s]))]
  /\ UNCHANGED handled
  /\ UNCHANGED <<seen, lsock, pendingLocalConnections, job>>
  /\ UNCHANGED <<yvars, zvars>>
  /\ UNCHANGED <<svars, lvars, avars, pvars, ovars, hvars, bvars, xvars,
                 nvars>>

\* The same with a request line of any content.
ReverseRequest(s, f, c, u) ==
  ReverseLookup(s, f, c, u) /\ UNCHANGED <<gvars, kvars>>

\* The type of the message that reports the outcome of a server-side dial
\* for a forward of direction dir.
ReverseReply(dir, outcome) ==
  CASE dir = "reverse" /\ outcome = "ready" -> "reverse_ready"
    [] dir = "reverse" /\ outcome = "failed" -> "reverse_failed"
    [] dir # "reverse" /\ outcome = "ready" -> "reverse_dynamic_ready"
    [] OTHER -> "reverse_dynamic_failed"

\* handleMessage, reverse_connection / reverse_dynamic, when no enabled row
\* of the client has the name and the direction of the message (lines
\* 459-463, 543-547), or when the lookup rejects (lines 497-500): the
\* failure message is written and nothing else happens.
ReverseMissing(s, dir, c) ==
  /\ NoTick
  /\ ~exited
  /\ UNCHANGED <<hvars, yvars, zvars>>
  /\ UNCHANGED bvars
  /\ UNCHANGED xvars
  /\ UNCHANGED nvars
  /\ UNCHANGED <<first, dbError>>
  /\ alive[s] = "open" /\ pc[s] = "steady"
  /\ clientId[s] # "none"
  /\ sent' = Write(s, Msg(ReverseReply(dir, "failed"), c, <<>>))
  /\ UNCHANGED <<svars, lvars, avars, pvars>>

\* A connect callback that writes reverse_ready and stores nothing.
DialDoneStoresNothing(u) ==
  /\ NoTick
  /\ ~exited
  /\ UNCHANGED <<hvars, yvars, zvars>>
  /\ UNCHANGED gvars
  /\ UNCHANGED kvars
  /\ UNCHANGED bvars
  /\ UNCHANGED xvars
  /\ UNCHANGED nvars
  /\ UNCHANGED <<first, dbError>>
  /\ usock[u] = "dialing"
  /\ usock' = [usock EXCEPT ![u] = "open"]
  /\ sent' = Write(uconn[u].ctl,
                   Msg(ReverseReply(uconn[u].mode, "ready"), uconn[u].id, <<>>))
  /\ UNCHANGED <<svars, lvars, avars, pendingConnections, qvars>>

\* The connect callback of the dial: the pending connection is stored under
\* the agent's connectionId and reverse_ready is written.
DialDone(u) ==
  /\ NoTick
  /\ ~exited
  /\ UNCHANGED <<hvars, yvars, zvars>>
  /\ UNCHANGED gvars
  /\ UNCHANGED kvars
  /\ UNCHANGED bvars
  /\ UNCHANGED xvars
  /\ UNCHANGED nvars
  /\ UNCHANGED <<first, dbError>>
  /\ usock[u] = "dialing"
  /\ usock' = [usock EXCEPT ![u] = "open"]
  /\ pendingConnections' =
       MapSet(pendingConnections, uconn[u].id, TargetPending(u, uconn[u].fwd))
  /\ sent' = Write(uconn[u].ctl,
                   Msg(ReverseReply(uconn[u].mode, "ready"), uconn[u].id, <<>>))
  /\ UNCHANGED <<svars, lvars, avars, qvars>>

\* The dial fails: the "error" handler writes reverse_failed.
DialError(u) ==
  /\ NoTick
  /\ ~exited
  /\ UNCHANGED <<hvars, yvars, zvars>>
  /\ UNCHANGED gvars
  /\ UNCHANGED kvars
  /\ UNCHANGED bvars
  /\ UNCHANGED xvars
  /\ UNCHANGED nvars
  /\ UNCHANGED <<first, dbError>>
  /\ usock[u] = "dialing"
  /\ usock' = [usock EXCEPT ![u] = "closed"]
  /\ sent' = Write(uconn[u].ctl,
                   Msg(ReverseReply(uconn[u].mode, "failed"), uconn[u].id, <<>>))
  /\ UNCHANGED <<svars, lvars, avars, pendingConnections, qvars>>

\* A deadline callback runs: when the table maps its id to a pending
\* connection that holds its socket, the socket is destroyed and the entry
\* deleted.
TimerFire(t) ==
  /\ NoTick
  /\ ~exited
  /\ UNCHANGED <<hvars, yvars, zvars>>
  /\ UNCHANGED gvars
  /\ UNCHANGED kvars
  /\ UNCHANGED bvars
  /\ UNCHANGED xvars
  /\ UNCHANGED nvars
  /\ UNCHANGED ovars
  /\ t \in timers
  /\ timers' = timers \ {t}
  /\ IF /\ t.id \in DOMAIN pendingConnections
        /\ pendingConnections[t.id][t.field] = t.sock
     THEN /\ usock' = [usock EXCEPT ![t.sock] = Torn(@)]
          /\ pendingConnections' = MapDelete(pendingConnections, {t.id})
          /\ timedOut' = timedOut \cup {t.sock}
     ELSE UNCHANGED <<usock, pendingConnections, timedOut>>
  /\ UNCHANGED <<svars, lvars, avars, uconn, dsock, dconn, generated,
                 received>>

\* -------------------------------------------------- data-connection join
\* data.toString(): UTF-8 decoding of a chunk to code points; a byte that
\* starts no well-formed sequence of one to three bytes decodes to U+FFFD.
RECURSIVE Utf8Decode(_)
Utf8Decode(b) ==
  IF b = <<>> THEN <<>>
  ELSE IF b[1] < 128 THEN <<b[1]>> \o Utf8Decode(Tail(b))
  ELSE IF /\ b[1] \in 194..223 /\ Len(b) >= 2 /\ b[2] \in 128..191
       THEN <<(b[1] - 192) * 64 + (b[2] - 128)>> \o Utf8Decode(Tail(Tail(b)))
  ELSE IF /\ b[1] \in 224..239 /\ Len(b) >= 3
          /\ b[2] \in 128..191 /\ b[3] \in 128..191
       THEN <<(b[1] - 224) * 4096 + (b[2] - 128) * 64 + (b[3] - 128)>>
              \o Utf8Decode(Tail(Tail(Tail(b))))
  ELSE <<65533>> \o Utf8Decode(Tail(b))

\* socket.write(string): UTF-8 encoding of code points below 65536.
RECURSIVE Utf8Encode(_)
Utf8Encode(cps) ==
  IF cps = <<>> THEN <<>>
  ELSE LET cp == cps[1]
       IN (IF cp < 128 THEN <<cp>>
           ELSE IF cp < 2048 THEN <<192 + (cp \div 64), 128 + (cp % 64)>>
           ELSE <<224 + (cp \div 4096), 128 + ((cp \div 64) % 64),
                  128 + (cp % 64)>>)
          \o Utf8Encode(Tail(cps))

\* remainingBuffer of onData, buffer.substring(newlineIndex + 1), as the
\* bytes clientSocket.write(remainingBuffer) puts on the wire.
RemainingBuffer(rest) == Utf8Encode(Utf8Decode(rest))

\* What handleIncomingDataConnection writes to the waiting socket of pending
\* connection p when the first read carried rest after the line: the
\* forward branch writes remainingBuffer to clientSocket, the reverse branch
\* writes nothing to targetSocket.
JoinWrite(p, rest) ==
  IF p.clientSocket # 0 THEN RemainingBuffer(rest) ELSE <<>>

\* A join that flushes nothing.
JoinFlushNothing(p) == <<>>

\* What it writes to the data connection: the forward branch flushes
\* clientPreData (lines 315-319).
JoinFlush(p) ==
  IF p.clientSocket # 0 THEN p.clientPreData ELSE <<>>

\* handleIncomingDataConnection finds the pending connection of msg: its
\* timer, if it holds one, is cleared and its clientPreData emptied; the
\* entry stays in the table.
JoinPending(c) ==
  MapSet(pendingConnections, c,
         [pendingConnections[c] EXCEPT !.timer = FALSE,
                                       !.clientPreData = <<>>])

\* A data connection that is left open when no pending connection matches.
KeptOpen(d) == [dsock EXCEPT ![d] = "open"]

\* The else branch of handleIncomingDataConnection (lines 423-426): no
\* pending connection is found, and socket.destroy() closes data socket d,
\* which has no handler but the one that read its line.
NoPending(d) == [dsock EXCEPT ![d] = "closed"]

\* A connection to the control port whose first read is the line
\* {type: "data_connection", connectionId: c} followed by the bytes rest:
\* handleIncomingDataConnection.  Without a pending connection under c the
\* socket is destroyed.
Join(d, c, rest) ==
  /\ NoTick
  /\ ~exited
  /\ UNCHANGED <<hvars, yvars, zvars>>
  /\ UNCHANGED ovars
  /\ FirstUnused(dsock, d)
  /\ IF c \in DOMAIN pendingConnections
     THEN LET p == pendingConnections[c]
              u == IF p.clientSocket # 0 THEN p.clientSocket
                   ELSE p.targetSocket
          IN /\ timers' = IF p.timer
                          THEN timers \ {Timer(c, p.clientSocket, "clientSocket")}
                          ELSE timers
             /\ pendingConnections' = JoinPending(c)
             /\ received' = [received EXCEPT ![u] =
                               IF usock[u] = "open" THEN @ \o JoinWrite(p, rest)
                               ELSE @]
             /\ dgot' = [dgot EXCEPT ![d] = JoinFlush(p)]
             /\ trafficCounters' =
                  IF p.clientSocket # 0
                  THEN PeerWrite(u, Len(Utf8Decode(rest)))
                  ELSE trafficCounters
             /\ dsock' = [dsock EXCEPT ![d] = "open"]
             /\ dconn' = [dconn EXCEPT ![d] =
                            [id |-> c, peer |-> u, rest |-> rest,
                             mark |-> Len(received[u]),
                             live |-> usock[u] = "open", later |-> 0,
                             pre |-> Len(JoinFlush(p))]]
     ELSE /\ dsock' = NoPending(d)
          /\ UNCHANGED <<timers, pendingConnections, received, dconn, dgot,
                         trafficCounters>>
  /\ UNCHANGED <<svars, lvars, avars, usock, uconn, generated, timedOut, upay>>
  /\ UNCHANGED <<trafficLog, flushing, exited, nvars>>

\* The same for a connection that anyone opens.
DataConnection(d, c, rest) ==
  Join(d, c, rest) /\ UNCHANGED <<gvars, kvars>>

\* A later chunk arrives on a spliced data connection and is piped to its
\* peer.
PipeData(d) ==
  /\ NoTick
  /\ ~exited
  /\ UNCHANGED <<hvars, yvars, zvars>>
  /\ UNCHANGED gvars
  /\ UNCHANGED kvars
  /\ UNCHANGED bvars
  /\ UNCHANGED <<trafficLog, flushing, exited>>
  /\ UNCHANGED nvars
  /\ UNCHANGED ovars
  /\ dsock[d] = "open" /\ dconn[d].peer # 0
  /\ usock[dconn[d].peer] = "open"
  /\ dconn[d].later < MaxLater
  /\ trafficCounters' = PeerWrite(dconn[d].peer, Len(LaterChunk))
  /\ dconn' = [dconn EXCEPT ![d].later = @ + 1]
  /\ received' = [received EXCEPT ![dconn[d].peer] = @ \o LaterChunk]
  /\ UNCHANGED <<svars, lvars, avars, tvars, uconn, dsock, timers, generated,
                 timedOut>>

\* cleanupPending of handleSocks5ForwardConnection (lines 779-787): the ids
\* it deletes for socket u.
OwnPending(u) ==
  IF /\ uconn[u].mode = "socks5"
     /\ uconn[u].id \in DOMAIN pendingConnections
     /\ pendingConnections[uconn[u].id].clientSocket = u
  THEN {uconn[u].id} ELSE {}

\* The peer of user/target socket u sends FIN (how = "end") or the socket
\* fails (how = "error").  The "end" handlers of its joins end the spliced
\* data connections, the "error" handlers destroy them (lines 359-369,
\* 407-415); "error" also runs cleanupPending of a SOCKS5 socket and,
\* on a target socket, the handler that writes reverse_failed (lines 482,
\* 559).  The socket itself closes: its "close" event follows.
UserGone(u, how) ==
  /\ NoTick
  /\ ~exited
  /\ UNCHANGED <<hvars, yvars, zvars>>
  /\ UNCHANGED gvars
  /\ UNCHANGED kvars
  /\ UNCHANGED bvars
  /\ UNCHANGED xvars
  /\ UNCHANGED nvars
  /\ UNCHANGED <<first, dbError>>
  /\ usock[u] \in {"open", "ended"}
  /\ usock' = [usock EXCEPT ![u] = "destroyed"]
  /\ dsock' = [d \in DSocks |->
                 IF d \notin Pipes(u) THEN dsock[d]
                 ELSE IF how = "end" THEN Ended(dsock[d]) ELSE Torn(dsock[d])]
  /\ IF how = "error"
     THEN /\ pendingConnections' = MapDelete(pendingConnections, OwnPending(u))
          /\ timers' = timers \ {Timer(c, u, "clientSocket") :
                                   c \in {k \in OwnPending(u) :
                                            pendingConnections[k].timer}}
          /\ sent' = IF uconn[u].mode \in {"reverse", "reverse-dynamic"}
                     THEN Write(uconn[u].ctl,
                                Msg(ReverseReply(uconn[u].mode, "failed"),
                                    uconn[u].id, <<>>))
                     ELSE sent
     ELSE UNCHANGED <<pendingConnections, timers, sent>>
  /\ UNCHANGED <<svars, lvars, avars, uconn, dconn, generated, received,
                 timedOut>>

\* The same for data connection d: the handlers of its join end or destroy
\* the socket it is spliced to (lines 363-373, 410-418).
DataGone(d, how) ==
  /\ NoTick
  /\ ~exited
  /\ UNCHANGED <<hvars, yvars, zvars>>
  /\ UNCHANGED gvars
  /\ UNCHANGED kvars
  /\ UNCHANGED bvars
  /\ UNCHANGED xvars
  /\ UNCHANGED nvars
  /\ UNCHANGED ovars
  /\ dsock[d] \in {"open", "ended"}
  /\ dsock' = [dsock EXCEPT ![d] = "destroyed"]
  /\ usock' = [u \in USocks |->
                 IF u # dconn[d].peer THEN usock[u]
                 ELSE IF how = "end" THEN Ended(usock[u]) ELSE Torn(usock[u])]
  /\ UNCHANGED <<svars, lvars, avars, pendingConnections, uconn, dconn,
                 timers, generated, received, timedOut>>

\* The "close" event of a user/target socket.  cleanupPending of
\* handleSocks5ForwardConnection deletes the pending connection of the
\* socket's id when it holds this socket, and clears its timer; the cleanup
\* of every join of the socket deletes the entry under the id of the join.
UserClose(u) ==
  /\ NoTick
  /\ ~exited
  /\ UNCHANGED <<hvars, yvars, zvars>>
  /\ UNCHANGED gvars
  /\ UNCHANGED kvars
  /\ UNCHANGED bvars
  /\ UNCHANGED xvars
  /\ UNCHANGED nvars
  /\ UNCHANGED ovars
  /\ usock[u] = "destroyed"
  /\ usock' = [usock EXCEPT ![u] = "closed"]
  /\ LET mine == OwnPending(u)
         cleared == {c \in mine : pendingConnections[c].timer}
     IN /\ pendingConnections' =
             MapDelete(pendingConnections,
                       mine \cup {dconn[d].id : d \in Pipes(u)})
        /\ timers' = timers \ {Timer(c, u, "clientSocket") : c \in cleared}
  /\ UNCHANGED <<svars, lvars, avars, uconn, dsock, dconn, generated,
                 received, timedOut>>

\* The "close" event of a spliced data connection: cleanup deletes the entry
\* under the id of the join.
DataClose(d) ==
  /\ NoTick
  /\ ~exited
  /\ UNCHANGED <<hvars, yvars, zvars>>
  /\ UNCHANGED gvars
  /\ UNCHANGED kvars
  /\ UNCHANGED bvars
  /\ UNCHANGED xvars
  /\ UNCHANGED nvars
  /\ UNCHANGED ovars
  /\ dsock[d] = "destroyed"
  /\ dsock' = [dsock EXCEPT ![d] = "closed"]
  /\ pendingConnections' = MapDelete(pendingConnections, {dconn[d].id})
  /\ UNCHANGED <<svars, lvars, avars, usock, uconn, dconn, timers, generated,
                 received, timedOut>>

\* ------------------------------------------------- the SOCKS5 negotiator
\* onData of handleSocks5ForwardConnection (lines 672-775) as a function of
\* its closure variables and the chunk it is handed.  buf[i] and
\* buf.slice(from, to) of a Buffer count from 0.
At(buf, i) == buf[i + 1]
Slice(buf, from, to) == SubSeq(buf, from + 1, to)

\* A port number with the low byte first.
PortLowFirst(hi, lo) == (lo * 256) + hi

\* port = (buf[offset] << 8) + buf[offset+1]
Port(hi, lo) == (hi * 256) + lo

\* The address the request stage makes of the address bytes: the four
\* numbers of an IPv4 address (joined by dots), the decoded name, or the
\* eight groups of an IPv6 address (each printed as four hex digits).
Addr(atyp, bytes) ==
  CASE atyp = 1 -> bytes
    [] atyp = 3 -> Utf8Decode(bytes)
    [] OTHER -> [i \in 1..8 |-> (bytes[2 * i - 1] * 256) + bytes[2 * i]]

\* Stage "greet" (lines 675-690).
Greet(st) ==
  IF st.stage # "greet" \/ Len(st.buf) < 2 THEN st
  ELSE IF At(st.buf, 0) # 5 THEN [st EXCEPT !.stage = "destroyed"]
  ELSE IF Len(st.buf) < 2 + At(st.buf, 1) THEN st
  ELSE [st EXCEPT !.buf = Slice(@, 2 + At(st.buf, 1), Len(@)),
                  !.written = @ \o <<5, 0>>,
                  !.stage = "request"]

\* The end of stage "request" (lines 727-758): the port is read at offset,
\* the request is cut off buf, and the pending connection is stored.
Target(st, addr, offset) ==
  [st EXCEPT !.targetHost = addr,
             !.targetPort = Port(At(st.buf, offset), At(st.buf, offset + 1)),
             !.buf = Slice(@, offset + 2, Len(@)),
             !.pendings = @ + 1,
             !.stage = "wait"]

\* Stage "request" (lines 691-726).
Request(st) ==
  IF st.stage # "request" \/ Len(st.buf) < 4 THEN st
  ELSE IF At(st.buf, 0) # 5 THEN [st EXCEPT !.stage = "destroyed"]
  ELSE IF At(st.buf, 1) # 1
       THEN [st EXCEPT !.written = @ \o SocksReply(7), !.stage = "destroyed"]
  ELSE IF At(st.buf, 3) = 1
       THEN IF Len(st.buf) < 4 + 4 + 2 THEN st
            ELSE Target(st, Addr(1, Slice(st.buf, 4, 8)), 8)
  ELSE IF At(st.buf, 3) = 3
       THEN IF Len(st.buf) < 4 + 1 THEN st
            ELSE IF Len(st.buf) < 4 + 1 + At(st.buf, 4) + 2 THEN st
            ELSE Target(st, Addr(3, Slice(st.buf, 5, 5 + At(st.buf, 4))),
                        5 + At(st.buf, 4))
  ELSE IF At(st.buf, 3) = 4
       THEN IF Len(st.buf) < 4 + 16 + 2 THEN st
            ELSE Target(st, Addr(4, Slice(st.buf, 4, 20)), 20)
  ELSE [st EXCEPT !.written = @ \o SocksReply(8), !.stage = "destroyed"]

\* Stage "wait" (lines 760-771): what is left in buf goes to clientPreData.
WaitStage(st) ==
  IF st.stage = "wait" /\ Len(st.buf) > 0
  THEN [st EXCEPT !.clientPreData = @ \o st.buf, !.buf = <<>>]
  ELSE st

\* onData(data): the chunk is appended to buf and the stages run one after
\* the other, each one leaving the state alone when it has to wait for more.
Socks5OnData(st, data) ==
  WaitStage(Request(Greet([st EXCEPT !.buf = @ \o data])))

\* The greetings, addresses, ports and payloads of a user: one or two
\* methods; an IPv4 address, a name with a two-byte character, an IPv6
\* address; ports 443 and 80; no payload, or two bytes right after the
\* request.
Greetings == {<<5, 1, 0>>, <<5, 2, 0, 2>>}
Addresses == {[atyp |-> 1, addr |-> <<10, 0, 0, 1>>],
              [atyp |-> 3, addr |-> <<97, 195, 169>>],
              [atyp |-> 4, addr |-> [i \in 1..16 |-> 16 * i]]}
PortBytes == {<<1, 187>>, <<0, 80>>}
Tails == {<<>>, <<22, 3>>}

Wires ==
  {[greet |-> g, atyp |-> a.atyp, addr |-> a.addr, port |-> p, tail |-> t] :
     g \in Greetings, a \in Addresses, p \in PortBytes, t \in Tails}

\* The bytes of a user: the greeting, the CONNECT request with its address
\* (a name after its length) and port, and the payload.
Bytes(w) ==
  IF w = NoWire THEN <<>>
  ELSE w.greet \o <<5, 1, 0, w.atyp>>
         \o (IF w.atyp = 3 THEN <<Len(w.addr)>> ELSE <<>>)
         \o w.addr \o w.port \o w.tail

\* The socket hands the next n bytes of the user to onData as one chunk.
Feed(n) ==
  /\ n >= 1
  /\ cut + n <= Len(Bytes(wire))
  /\ neg.stage # "destroyed"
  /\ neg' = Socks5OnData(neg, SubSeq(Bytes(wire), cut + 1, cut + n))
  /\ cut' = cut + n
  /\ chunks' = chunks + 1
  /\ UNCHANGED <<wire, second>>
  /\ UNCHANGED <<svars, lvars, avars, pvars, ovars, hvars, gvars, bvars, xvars,
                 kvars, nvars>>

\* ---------------------------------------------------------- traffic meter
\* countersToFlush of flushTrafficCounters: one row per key of
\* trafficCounters in S (the Map iterates in the order of insertion; the
\* rows are taken in the order of the ids).
RECURSIVE Snapshot(_)
Snapshot(S) ==
  IF S = {} THEN <<>>
  ELSE LET f == CHOOSE x \in S : \A y \in S : x <= y
       IN <<[fwd |-> f, bytesIn |-> trafficCounters[f].bytesIn,
             bytesOut |-> trafficCounters[f].bytesOut]>>
          \o Snapshot(S \ {f})

\* flushTrafficCounters up to its first await, as the new value of flushing:
\* the counters are copied and cleared, and the INSERT of the first row is
\* issued (database.updatePortForwardTraffic calls db.run).  trafficCounters
\* is empty afterwards.
flushTrafficCounters ==
  IF DOMAIN trafficCounters = {} THEN flushing
  ELSE Append(flushing, Snapshot(DOMAIN trafficCounters))

\* A flush that leaves the counters as they are.
KeptCounters == trafficCounters

\* this.trafficCounters.clear() of flushTrafficCounters (line 901), as the
\* new value of trafficCounters.
ClearedCounters == EmptyMap

\* The callback of the setInterval of startTrafficFlushing.
FlushTick ==
  /\ NoTick
  /\ ~exited
  /\ flushing' = flushTrafficCounters
  /\ trafficCounters' = ClearedCounters
  /\ UNCHANGED <<trafficLog, exited>>
  /\ UNCHANGED <<yvars, zvars>>
  /\ UNCHANGED <<svars, lvars, avars, pvars, ovars, hvars, gvars, bvars, kvars,
                 nvars>>

\* The INSERT that call i of flushTrafficCounters awaits is done: the row is
\* in traffic_stats, and the loop issues the INSERT of its next row or ends.
FlushWritten(i) ==
  /\ NoTick
  /\ ~exited
  /\ i \in DOMAIN flushing
  /\ trafficLog' = Append(trafficLog, Head(flushing[i]))
  /\ flushing' = IF Len(flushing[i]) > 1
                 THEN [flushing EXCEPT ![i] = Tail(@)]
                 ELSE SubSeq(flushing, 1, i - 1)
                        \o SubSeq(flushing, i + 1, Len(flushing))
  /\ UNCHANGED <<trafficCounters, exited>>
  /\ UNCHANGED <<yvars, zvars>>
  /\ UNCHANGED <<svars, lvars, avars, pvars, ovars, hvars, gvars, bvars, kvars,
                 nvars>>

\* The SIGINT handler of the server (client.js lines 1425-1429):
\* server.stop(), which calls flushTrafficCounters without awaiting it and
\* closes the listeners, and then process.exit(0).  Of the INSERTs that are
\* issued at that moment, the worker thread of sqlite3 has executed those of
\* the calls in W before the process ends; no further row is inserted.
Sigint(W) ==
  /\ NoTick
  /\ ~exited
  /\ W \subseteq DOMAIN flushTrafficCounters
  /\ LET calls == flushTrafficCounters
         InW(i) == i \in W
         done  == SelectSeq([i \in DOMAIN calls |-> i], InW)
     IN trafficLog' = trafficLog \o [k \in DOMAIN done |-> Head(calls[done[k]])]
  /\ flushing' = <<>>
  /\ trafficCounters' = EmptyMap
  /\ exited' = TRUE
  /\ servers' = {}
  /\ UNCHANGED <<svars, clientSockets, proxyServers, clients, avars, pvars,
                 ovars, hvars, yvars, zvars, gvars, bvars, kvars, nvars>>

\* ------------------------------------------- control messages of the agent
\* handleMessage, dynamic_ready for connectionId c (lines 503-518): the
\* SOCKS5 success reply is written to the clientSocket of the pending
\* connection under c, if there is one.
DynamicReady(s, c) ==
  /\ NoTick
  /\ ~exited
  /\ UNCHANGED <<hvars, yvars, zvars>>
  /\ UNCHANGED bvars
  /\ UNCHANGED <<trafficLog, flushing, exited>>
  /\ UNCHANGED nvars
  /\ UNCHANGED ovars
  /\ alive[s] = "open" /\ pc[s] = "steady"
  /\ IF /\ c \in DOMAIN pendingConnections
        /\ pendingConnections[c].clientSocket # 0
     THEN LET u == pendingConnections[c].clientSocket
          IN /\ received' = [received EXCEPT ![u] =
                               IF usock[u] = "open" THEN @ \o SocksReply(0)
                               ELSE @]
             /\ trafficCounters' = PeerWrite(u, Len(SocksReply(0)))
     ELSE UNCHANGED <<received, trafficCounters>>
  /\ UNCHANGED <<svars, lvars, avars, tvars, uconn, dsock, dconn, timers,
                 generated, timedOut>>

\* handleMessage, dynamic_failed for connectionId c (lines 519-533): with a
\* pending connection under c that holds a clientSocket, the SOCKS5 failure
\* reply is written to it, it is destroyed and the entry deleted; else the
\* message is only logged.
DynamicFailed(s, c) ==
  /\ NoTick
  /\ ~exited
  /\ UNCHANGED <<hvars, yvars, zvars>>
  /\ UNCHANGED bvars
  /\ UNCHANGED <<trafficLog, flushing, exited>>
  /\ UNCHANGED nvars
  /\ UNCHANGED ovars
  /\ alive[s] = "open" /\ pc[s] = "steady"
  /\ IF /\ c \in DOMAIN pendingConnections
        /\ pendingConnections[c].clientSocket # 0
     THEN LET u == pendingConnections[c].clientSocket
          IN /\ received' = [received EXCEPT ![u] =
                               IF usock[u] = "open" THEN @ \o SocksReply(1)
                               ELSE @]
             /\ trafficCounters' = PeerWrite(u, Len(SocksReply(1)))
             /\ usock' = [usock EXCEPT ![u] = Torn(@)]
             /\ pendingConnections' = MapDelete(pendingConnections, {c})
     ELSE UNCHANGED <<received, usock, pendingConnections, trafficCounters>>
  /\ UNCHANGED <<svars, lvars, avars, uconn, dsock, dconn, timers, generated,
                 timedOut>>

\* processControlMessages hands the next line of the agent to handleMessage.
\* The line is a reverse_connection or reverse_dynamic: the forward it names
\* is looked up among the enabled rows of the socket's client with the
\* direction of the message.
OnReverse(s) ==
  /\ inbox[s] # <<>>
  /\ Head(inbox[s]).type \in {"reverse_connection", "reverse_dynamic"}
  /\ LET m == Head(inbox[s])
         f == m.list[1]
         dir == IF m.type = "reverse_connection" THEN "reverse"
                ELSE "reverse-dynamic"
     IN IF /\ f \in enabled /\ Forwards[f].client = clientId[s]
           /\ Forwards[f].direction = dir
        THEN \E u \in USocks : ReverseLookup(s, f, m.id, u)
        ELSE ReverseMissing(s, dir, m.id)
  /\ inbox' = [inbox EXCEPT ![s] = Tail(@)]
  /\ arrived' = [arrived EXCEPT ![s] = Append(@, Head(inbox[s]))]
  /\ handled' = [handled EXCEPT ![s] = Append(@, Head(inbox[s]))]
  /\ UNCHANGED <<seen, lsock, pendingLocalConnections, job>>

\* The line is a dynamic_ready.
OnDynamicReady(s) ==
  /\ inbox[s] # <<>>
  /\ Head(inbox[s]).type = "dynamic_ready"
  /\ DynamicReady(s, Head(inbox[s]).id)
  /\ inbox' = [inbox EXCEPT ![s] = Tail(@)]
  /\ arrived' = [arrived EXCEPT ![s] = Append(@, Head(inbox[s]))]
  /\ handled' = [handled EXCEPT ![s] = Append(@, Head(inbox[s]))]
  /\ UNCHANGED <<seen, lsock, pendingLocalConnections, job>>

\* The line is a dynamic_failed.
OnDynamicFailed(s) ==
  /\ inbox[s] # <<>>
  /\ Head(inbox[s]).type = "dynamic_failed"
  /\ DynamicFailed(s, Head(inbox[s]).id)
  /\ inbox' = [inbox EXCEPT ![s] = Tail(@)]
  /\ arrived' = [arrived EXCEPT ![s] = Append(@, Head(inbox[s]))]
  /\ handled' = [handled EXCEPT ![s] = Append(@, Head(inbox[s]))]
  /\ UNCHANGED <<seen, lsock, pendingLocalConnections, job>>

\* ------------------------------------------------------------ the agent
\* src/src/client.js, class FRPClient, for the agent whose control
\* connection is s.  assignedProxies: the portForwards of the last
\* auth_response or config_update the agent has handled; its reverse and
\* reverse-dynamic rows are the ones the agent listens for.
Assigned(s) ==
  LET idx == {i \in 1..seen[s] :
                \/ sent[s][i].type = "config_update"
                \/ sent[s][i].type = "auth_response" /\ sent[s][i].id = 1}
  IN IF idx = {} THEN {}
     ELSE SeqToSet(sent[s][CHOOSE i \in idx : \A j \in idx : j <= i].list)

\* The agent writes line m on its control connection.
Send(s, m) == [inbox EXCEPT ![s] = Append(@, m)]

\* The data socket the agent opens for connectionId c on behalf of a
\* message of type kind: it is connecting to the control port.
Job(kind) == [st |-> "connecting", d |-> 0, kind |-> kind]

\* The forEach loops of handleAuthResponse and handleConfigUpdate that set
\* up listeners (lines 283-310, 312-370): for every row of sq with direction
\* dir whose name is no key of map, net.createServer makes a server, the
\* n + 1st and following, whose callbacks and listen address are those of
\* that row (forward), and map.set stores it under the name.
RECURSIVE Listen(_, _, _, _)
Listen(map, sq, dir, n) ==
  IF sq = <<>> THEN map
  ELSE LET name == Forwards[Head(sq)].name
       IN IF Forwards[Head(sq)].direction = dir /\ name \notin DOMAIN map
          THEN Listen(MapSet(map, name, [no |-> n + 1, forward |-> Head(sq)]),
                      Tail(sq), dir, n + 1)
          ELSE Listen(map, Tail(sq), dir, n)

\* desiredReverseNames of portForwards list sq.
DesiredReverseNames(sq) ==
  {Forwards[f].name :
     f \in {g \in SeqToSet(sq) :
              Forwards[g].direction \in {"reverse", "reverse-dynamic"}}}

\* A config_update that closes every listener and opens the desired ones
\* anew.
RelistenAll(sq) ==
  LET rs == Listen(EmptyMap, sq, "reverse", made)
      n  == made + Cardinality(DOMAIN rs)
      ss == Listen(EmptyMap, sq, "reverse-dynamic", n)
  IN /\ reverseServers' = rs
     /\ socksServers' = ss
     /\ made' = n + Cardinality(DOMAIN ss)

\* The listener part of handleAuthResponse and of handleConfigUpdate for
\* portForwards list sq: the listeners that are missing are made, and the
\* ones whose name is not desired are closed and deleted (lines 371-384,
\* 520-533).
SetListeners(sq) ==
  LET rs == Listen(reverseServers, sq, "reverse", made)
      n  == made + Cardinality(DOMAIN rs \ DOMAIN reverseServers)
      ss == Listen(socksServers, sq, "reverse-dynamic", n)
  IN /\ reverseServers' = MapDelete(rs, DOMAIN rs \ DesiredReverseNames(sq))
     /\ socksServers' = MapDelete(ss, DOMAIN ss \ DesiredReverseNames(sq))
     /\ made' = n + Cardinality(DOMAIN ss \ DOMAIN socksServers)

\* handleMessage of the agent for line m, as far as its control socket, its
\* listeners and its UDP sessions go.  auth_response: the listeners are set
\* up when it reports success, else this.controlSocket.destroy() (line 393).
\* config_update: the listeners are set up.  udp_packet: the session of the
\* connectionId is created if there is none (lines 615-637).  udp_close:
\* closeUdpSession.
AgentState(m) ==
  CASE m.type = "auth_response" /\ m.id = 1 ->
         /\ SetListeners(m.list)
         /\ UNCHANGED <<controlSocket, link, connected, reconnectTimer,
                        attempts, udpSessions, crashed>>
    [] m.type = "auth_response" /\ m.id # 1 ->
         /\ controlSocket' = IF controlSocket = "open" THEN "destroyed"
                             ELSE controlSocket
         /\ UNCHANGED <<link, connected, reconnectTimer, attempts,
                        reverseServers, socksServers, made, udpSessions,
                        crashed>>
    [] m.type = "config_update" ->
         /\ SetListeners(m.list)
         /\ UNCHANGED <<controlSocket, link, connected, reconnectTimer,
                        attempts, udpSessions, crashed>>
    [] m.type = "udp_packet" ->
         /\ udpSessions' = udpSessions \cup {m.id}
         /\ UNCHANGED <<controlSocket, link, connected, reconnectTimer,
                        attempts, reverseServers, socksServers, made, crashed>>
    [] m.type = "udp_close" ->
         /\ udpSessions' = udpSessions \ {m.id}
         /\ UNCHANGED <<controlSocket, link, connected, reconnectTimer,
                        attempts, reverseServers, socksServers, made, crashed>>
    [] OTHER -> UNCHANGED nvars

\* handleMessage of the agent for the next line of the server.
\* new_connection: handleNewConnection opens a data socket when the proxy is
\* assigned.  dynamic_connection: a data socket is opened.  reverse_ready and
\* reverse_dynamic_ready: a data socket is opened when the connectionId is
\* pending.  reverse_failed: the pending local socket is destroyed and
\* forgotten; reverse_dynamic_failed: the SOCKS5 failure reply is written
\* to it first.  The other lines open and close nothing.
AgentMessage(s) ==
  /\ seen[s] < Len(sent[s])
  /\ seen' = [seen EXCEPT ![s] = @ + 1]
  /\ LET m == sent[s][seen[s] + 1]
         c == m.id
         waits == c \in DOMAIN pendingLocalConnections
     IN CASE m.type = "new_connection" ->
               /\ job' = IF m.list[1] \in Assigned(s)
                         THEN [job EXCEPT ![c] = Job("new")] ELSE job
               /\ UNCHANGED <<lsock, pendingLocalConnections>>
          [] m.type = "dynamic_connection" ->
               /\ job' = [job EXCEPT ![c] = Job("dynamic")]
               /\ UNCHANGED <<lsock, pendingLocalConnections>>
          [] m.type \in {"reverse_ready", "reverse_dynamic_ready"} ->
               /\ job' = IF waits
                         THEN [job EXCEPT ![c] =
                                 Job(IF m.type = "reverse_ready" THEN "reverse"
                                     ELSE "reverse-dynamic")]
                         ELSE job
               /\ UNCHANGED <<lsock, pendingLocalConnections>>
          [] m.type \in {"reverse_failed", "reverse_dynamic_failed"} ->
               /\ IF waits
                  THEN LET l == pendingLocalConnections[c]
                       IN /\ lsock' =
                               [lsock EXCEPT
                                  ![l].got =
                                     IF /\ m.type = "reverse_dynamic_failed"
                                        /\ lsock[l].st = "open"
                                     THEN @ \o SocksReply(1) ELSE @,
                                  ![l].st = Torn(@)]
                          /\ pendingLocalConnections' =
                               MapDelete(pendingLocalConnections, {c})
                  ELSE UNCHANGED <<lsock, pendingLocalConnections>>
               /\ UNCHANGED job
          [] OTHER -> UNCHANGED <<lsock, pendingLocalConnections, job>>
  /\ AgentState(sent[s][seen[s] + 1])
  /\ UNCHANGED <<yvars, zvars>>
  /\ UNCHANGED <<svars, lvars, avars, pvars, ovars, hvars, bvars, inbox>>
  /\ UNCHANGED <<xvars, kvars>>

\* A local user connects to the listener the agent keeps for its assigned
\* forward f.  A reverse listener stores the socket under a fresh
\* connectionId c and writes reverse_connection (lines 286-302); a
\* reverse-dynamic listener installs its SOCKS5 handler (lines 316-323).
AgentAccept(s, l, f, c) ==
  /\ alive[s] = "open"
  /\ f \in Assigned(s)
  /\ Forwards[f].direction \in {"reverse", "reverse-dynamic"}
  /\ lsock[l].st = "none"
  /\ \A k \in LSocks : k < l => lsock[k].st # "none"
  /\ IF Forwards[f].direction = "reverse"
     THEN /\ c \in ConnIds \ generated
          /\ lsock' = [lsock EXCEPT ![l] =
                         [st |-> "open", mode |-> "reverse", fwd |-> f,
                          id |-> c, got |-> <<>>, pay |-> 0, out |-> <<>>]]
          /\ generated' = generated \cup {c}
          /\ pendingLocalConnections' = MapSet(pendingLocalConnections, c, l)
          /\ inbox' = Send(s, Msg("reverse_connection", c, <<f>>))
     ELSE /\ lsock' = [lsock EXCEPT ![l] =
                         [st |-> "open", mode |-> "socks5", fwd |-> f,
                          id |-> 0, got |-> <<>>, pay |-> 0, out |-> <<>>]]
          /\ UNCHANGED <<generated, pendingLocalConnections, inbox>>
  /\ UNCHANGED <<svars, lvars, avars, tvars, uconn, dsock, dconn, timers,
                 received, timedOut, ovars, hvars, yvars, zvars, bvars, seen,
                 job>>
  /\ UNCHANGED <<xvars, kvars, nvars>>

\* The data handler of a reverse-dynamic listener reads the greeting and a
\* request of command cmd and address type atyp (lines 322-363): 05 00 is
\* written; a command other than CONNECT or an unknown address type destroys
\* the socket; else the socket is stored under a fresh connectionId c and
\* reverse_dynamic is written.
AgentSocksRequest(s, l, cmd, atyp, c) ==
  /\ lsock[l].st = "open"
  /\ lsock[l].mode = "socks5" /\ lsock[l].id = 0
  /\ IF cmd # 1 \/ atyp \notin {1, 3, 4}
     THEN /\ lsock' = [lsock EXCEPT ![l].got = @ \o <<5, 0>>,
                                    ![l].st = "destroyed"]
          /\ UNCHANGED <<generated, pendingLocalConnections, inbox>>
     ELSE /\ c \in ConnIds \ generated
          /\ lsock' = [lsock EXCEPT ![l].got = @ \o <<5, 0>>, ![l].id = c]
          /\ generated' = generated \cup {c}
          /\ pendingLocalConnections' = MapSet(pendingLocalConnections, c, l)
          /\ inbox' = Send(s, Msg("reverse_dynamic", c, <<lsock[l].fwd>>))
  /\ UNCHANGED <<svars, lvars, avars, tvars, uconn, dsock, dconn, timers,
                 received, timedOut, ovars, hvars, yvars, zvars, bvars, seen,
                 job>>
  /\ UNCHANGED <<xvars, kvars, nvars>>

\* What localSocket.pipe(dataSocket) has written to the data socket of the
\* SOCKS5 socket l when its user sends one more byte: the byte follows what
\* was written before.  The bytes the "data" handler of the listener took
\* while no data socket was piped are in its buf, which is not read in stage
\* "wait" (lines 322-363, 467-506).
Piped(l) == lsock[l].out

\* The local user of a SOCKS5 socket whose request the agent has accepted
\* sends its next payload byte.  The "data" handler of the listener appends
\* it to buf; once reverse_dynamic_ready has piped the socket to a data
\* socket (lines 215-216), the pipe writes it to that socket as well.
LocalData(l) ==
  /\ lsock[l].st = "open"
  /\ lsock[l].mode = "socks5" /\ lsock[l].id # 0
  /\ lsock[l].pay < MaxPayload
  /\ lsock' = [lsock EXCEPT
                 ![l].pay = @ + 1,
                 ![l].out = IF job[lsock[l].id].st = "piped"
                            THEN Piped(l) \o Payload(lsock[l].pay, 1)
                            ELSE @]
  /\ UNCHANGED <<inbox, seen, pendingLocalConnections, job>>
  /\ UNCHANGED <<yvars, zvars>>
  /\ UNCHANGED <<svars, lvars, avars, pvars, ovars, hvars, bvars, xvars, kvars,
                 nvars>>

\* The connect callback of the agent's data socket for connectionId c: the
\* data_connection line is written.  For new_connection and
\* dynamic_connection the dial to the local service or to the target starts
\* (lines 557-566, 178-179); for reverse_ready the socket is piped to the
\* waiting local socket (lines 125-130), for reverse_dynamic_ready after the
\* SOCKS5 success reply was written to it (lines 211-219).
AgentConnected(c) ==
  /\ job[c].st = "connecting"
  /\ IF job[c].kind \in {"new", "dynamic"}
     THEN /\ job' = [job EXCEPT ![c].st = "dialing"]
          /\ UNCHANGED lsock
     ELSE /\ job' = [job EXCEPT ![c].st = "piped"]
          /\ lsock' =
               IF /\ job[c].kind = "reverse-dynamic"
                  /\ c \in DOMAIN pendingLocalConnections
               THEN LET l == pendingLocalConnections[c]
                    IN [lsock EXCEPT ![l].got =
                          IF lsock[l].st = "open" THEN @ \o SocksReply(0)
                          ELSE @]
               ELSE lsock
  /\ UNCHANGED <<yvars, zvars>>
  /\ UNCHANGED <<svars, lvars, avars, pvars, ovars, hvars, bvars, inbox,
                 seen, pendingLocalConnections>>
  /\ UNCHANGED <<xvars, kvars, nvars>>

\* The agent's dial for connectionId c ends.  When it connected, the data
\* socket is piped to it, and for dynamic_connection dynamic_ready is
\* written on the control connection (lines 179-184, 566-590).  When it
\* failed, dynamic_failed is written for dynamic_connection, and the data
\* socket is destroyed (lines 186-194, 595-598).
AgentDial(s, c, ok) ==
  /\ job[c].st = "dialing"
  /\ job' = [job EXCEPT ![c].st = IF ok THEN "piped" ELSE "torn"]
  /\ inbox' = IF job[c].kind = "dynamic"
              THEN Send(s, Msg(IF ok THEN "dynamic_ready"
                               ELSE "dynamic_failed", c, <<>>))
              ELSE inbox
  /\ UNCHANGED <<yvars, zvars>>
  /\ UNCHANGED <<svars, lvars, avars, pvars, ovars, hvars, bvars, seen,
                 lsock, pendingLocalConnections>>
  /\ UNCHANGED <<xvars, kvars, nvars>>

\* The server accepts the agent's data socket for connectionId c and reads
\* its line; bytes follow the line in the same read only when the agent has
\* piped the socket.
AgentJoin(d, c, rest) ==
  /\ job[c].st \in {"dialing", "piped", "torn"}
  /\ job[c].d = 0
  /\ rest # <<>> => job[c].st = "piped"
  /\ Join(d, c, rest)
  /\ job' = [job EXCEPT ![c].d = d]
  /\ UNCHANGED <<inbox, seen, lsock, pendingLocalConnections, kvars>>

\* Bytes the agent piped into its data socket reach the server.
AgentPipeData(d) ==
  /\ \E c \in ConnIds : job[c].d = d /\ job[c].st = "piped"
  /\ PipeData(d)

\* The FIN of a data socket the agent destroyed reaches the server.
AgentFin(d) ==
  /\ \E c \in ConnIds : job[c].d = d /\ job[c].st = "torn"
  /\ DataGone(d, "end")

\* ------------------------------------------- the agent's control connection
\* connect() of the agent (src/src/client.js, lines 26-77):
\* net.createConnection makes this.controlSocket, which is connecting.
connect ==
  /\ controlSocket' = "connecting"
  /\ attempts' = attempts + 1

\* handleDisconnect (lines 702-722): connected is cleared, the UDP sessions
\* are closed, the control socket is destroyed and forgotten, and connect()
\* is scheduled in 5 seconds.
handleDisconnect ==
  /\ connected' = FALSE
  /\ udpSessions' = {}
  /\ controlSocket' = "null"
  /\ link' = 0
  /\ reconnectTimer' = TRUE
  /\ UNCHANGED <<attempts, reverseServers, socksServers, made, crashed>>

\* start() of the agent: the first connect().
AgentStart ==
  /\ ~crashed
  /\ attempts = 0 /\ controlSocket = "null"
  /\ connect
  /\ UNCHANGED <<link, connected, reconnectTimer, reverseServers, socksServers,
                 made, udpSessions, crashed>>
  /\ UNCHANGED <<yvars, zvars>>
  /\ UNCHANGED <<svars, lvars, avars, pvars, ovars, hvars, gvars, bvars, xvars,
                 kvars>>

\* The timer of handleDisconnect fires: connect().
ReconnectFire ==
  /\ ~crashed
  /\ reconnectTimer
  /\ attempts < MaxAttempts
  /\ reconnectTimer' = FALSE
  /\ connect
  /\ UNCHANGED <<link, connected, reverseServers, socksServers, made,
                 udpSessions, crashed>>
  /\ UNCHANGED <<yvars, zvars>>
  /\ UNCHANGED <<svars, lvars, avars, pvars, ovars, hvars, gvars, bvars, xvars,
                 kvars>>

\* The connect callback of the control socket (lines 32-46): the server has
\* accepted the connection as its socket s, connected is set and the
\* handshake line is written.
Linked(s) ==
  /\ ~crashed
  /\ controlSocket = "connecting"
  /\ alive[s] = "open" /\ pc[s] = "new"
  /\ controlSocket' = "open"
  /\ link' = s
  /\ connected' = TRUE
  /\ UNCHANGED <<reconnectTimer, attempts, reverseServers, socksServers, made,
                 udpSessions, crashed>>
  /\ UNCHANGED <<yvars, zvars>>
  /\ UNCHANGED <<svars, lvars, avars, pvars, ovars, hvars, gvars, bvars, xvars,
                 kvars>>

\* The connection attempt fails: 'error' is emitted on the control socket
\* (lines 74-77).
ConnectFailed ==
  /\ ~crashed
  /\ controlSocket = "connecting"
  /\ handleDisconnect
  /\ UNCHANGED <<yvars, zvars>>
  /\ UNCHANGED <<svars, lvars, avars, pvars, ovars, hvars, gvars, bvars, xvars,
                 kvars>>

\* 'end' or 'error' is emitted on the agent's open control socket (lines
\* 69-77): 'end' when the server has closed its side, 'error' at any time.
ControlGone(how) ==
  /\ ~crashed
  /\ controlSocket = "open"
  /\ how = "end" => alive[link] # "open"
  /\ handleDisconnect
  /\ UNCHANGED <<yvars, zvars>>
  /\ UNCHANGED <<svars, lvars, avars, pvars, ovars, hvars, gvars, bvars, xvars,
                 kvars>>

\* A local user sends a SOCKS5 CONNECT request to the reverse-dynamic
\* listener of the given name while this.controlSocket is null: line 360
\* calls this.controlSocket.write, the TypeError is caught by nobody, and the
\* process ends with its timers and listeners.
SocksRequestDown(name) ==
  /\ ~crashed
  /\ name \in DOMAIN socksServers
  /\ controlSocket = "null"
  /\ crashed' = TRUE
  /\ reconnectTimer' = FALSE
  /\ reverseServers' = EmptyMap
  /\ socksServers' = EmptyMap
  /\ UNCHANGED <<controlSocket, link, connected, attempts, made, udpSessions>>
  /\ UNCHANGED <<yvars, zvars>>
  /\ UNCHANGED <<svars, lvars, avars, pvars, ovars, hvars, gvars, bvars, xvars,
                 kvars>>

\* The data handler of the agent's control socket (lines 52-67): the next
\* line of the server is handed to handleMessage.
AgentReads ==
  /\ ~crashed
  /\ controlSocket = "open"
  /\ AgentMessage(link)

\* The udp_packet lines the server has written on control socket s.
Datagrams(s) == {i \in DOMAIN sent[s] : sent[s][i].type = "udp_packet"}

\* The server receives a datagram on the UDP port of a forward of the agent
\* of session s from the source address it numbers c, and writes udp_packet
\* with targetHost and targetPort on the control connection.
UdpDatagram(s, c) ==
  /\ NoTick
  /\ ~exited
  /\ alive[s] = "open" /\ pc[s] = "steady"
  /\ Cardinality(Datagrams(s)) < MaxDatagrams
  /\ sent' = Write(s, Msg("udp_packet", c, <<>>))
  /\ UNCHANGED <<first, dbError>>
  /\ UNCHANGED <<yvars, zvars>>
  /\ UNCHANGED <<svars, lvars, avars, pvars, hvars, gvars, bvars, xvars, kvars,
                 nvars>>

\* The server drops the UDP session c of session s: udp_close is written.
UdpCloseSent(s, c) ==
  /\ NoTick
  /\ ~exited
  /\ alive[s] = "open" /\ pc[s] = "steady"
  /\ \E i \in Datagrams(s) : sent[s][i].id = c
  /\ \A i \in DOMAIN sent[s] : ~(sent[s][i].type = "udp_close"
                                  /\ sent[s][i].id = c)
  /\ sent' = Write(s, Msg("udp_close", c, <<>>))
  /\ UNCHANGED <<first, dbError>>
  /\ UNCHANGED <<yvars, zvars>>
  /\ UNCHANGED <<svars, lvars, avars, pvars, hvars, gvars, bvars, xvars, kvars,
                 nvars>>

\* 'error' on the UDP socket of session c of the agent (lines 630-633):
\* closeUdpSession(connectionId, true) deletes the session, closes the socket
\* and writes udp_close when the control socket is there.
UdpError(c) ==
  /\ ~crashed
  /\ c \in udpSessions
  /\ udpSessions' = udpSessions \ {c}
  /\ inbox' = IF controlSocket = "open" THEN Send(link, Msg("udp_close", c, <<>>))
              ELSE inbox
  /\ UNCHANGED <<controlSocket, link, connected, reconnectTimer, attempts,
                 reverseServers, socksServers, made, crashed>>
  /\ UNCHANGED <<seen, lsock, pendingLocalConnections, job>>
  /\ UNCHANGED <<yvars, zvars>>
  /\ UNCHANGED <<svars, lvars, avars, pvars, ovars, hvars, bvars, xvars, kvars>>

\* --------------------------------------------------------------- reload
\* The admin surface toggles the enabled flag of row f
\* (PUT /api/port-forwards/:id/toggle) and calls reloadClientPortForwards
\* for the row's client, which returns at once when the client has no
\* registered socket or the socket is destroyed, and else awaits
\* getPortForwardsByClient.
Toggle(f) ==
  /\ NoTick
  /\ ~exited
  /\ UNCHANGED <<hvars, yvars, zvars>>
  /\ UNCHANGED gvars
  /\ UNCHANGED kvars
  /\ UNCHANGED bvars
  /\ UNCHANGED xvars
  /\ UNCHANGED nvars
  /\ UNCHANGED ovars
  /\ changes < MaxChanges
  /\ rl[Forwards[f].client].pc = "idle"
  /\ changes' = changes + 1
  /\ enabled' = IF f \in enabled THEN enabled \ {f} ELSE enabled \cup {f}
  /\ LET a == Forwards[f].client
     IN rl' = IF a \in DOMAIN clientSockets /\ alive[clientSockets[a]] = "open"
              THEN [rl EXCEPT ![a] = [pc |-> "query", sock |-> clientSockets[a],
                                      todo |-> <<>>, list |-> <<>>]]
              ELSE rl
  /\ UNCHANGED <<queued, saves>>
  /\ UNCHANGED <<svars, lvars>>
  /\ UNCHANGED pvars

\* The admin surface saves row f with the values it has
\* (PUT /api/port-forwards/:id, src/src/webui.js, lines 407-425) and calls
\* reloadClientPortForwards for the row's client, also while an earlier call
\* for the client awaits its query: the queries resolve in the order of the
\* calls.
Save(f) ==
  /\ NoTick
  /\ ~exited
  /\ saves < MaxSaves
  /\ saves' = saves + 1
  /\ LET a == Forwards[f].client
         called == a \in DOMAIN clientSockets /\ alive[clientSockets[a]] = "open"
     IN /\ rl' = IF called /\ rl[a].pc = "idle"
                 THEN [rl EXCEPT ![a] = [pc |-> "query", sock |-> clientSockets[a],
                                         todo |-> <<>>, list |-> <<>>]]
                 ELSE rl
        /\ queued' = IF called /\ rl[a].pc # "idle"
                     THEN [queued EXCEPT ![a] = Append(@, clientSockets[a])]
                     ELSE queued
  /\ UNCHANGED <<enabled, changes>>
  /\ UNCHANGED <<yvars, zvars>>
  /\ UNCHANGED <<svars, lvars, pvars, ovars, hvars, gvars, bvars, xvars, kvars,
                 nvars>>

\* The admin surface rewrites row f to the content g
\* (PUT /api/port-forwards/:id with a body that names other values,
\* src/src/webui.js, lines 407-425): db.updatePortForward, and
\* reloadClientPortForwards for the row's client.
Update(f, g) ==
  /\ NoTick
  /\ ~exited
  /\ changes < MaxChanges
  /\ f \in enabled /\ g \notin enabled
  /\ Forwards[g].row = Forwards[f].row
  /\ rl[Forwards[f].client].pc = "idle"
  /\ changes' = changes + 1
  /\ enabled' = (enabled \ {f}) \cup {g}
  /\ LET a == Forwards[f].client
     IN rl' = IF a \in DOMAIN clientSockets /\ alive[clientSockets[a]] = "open"
              THEN [rl EXCEPT ![a] = [pc |-> "query", sock |-> clientSockets[a],
                                      todo |-> <<>>, list |-> <<>>]]
              ELSE rl
  /\ UNCHANGED <<queued, saves>>
  /\ UNCHANGED <<yvars, zvars>>
  /\ UNCHANGED <<svars, lvars, pvars, ovars, hvars, gvars, bvars, xvars, kvars,
                 nvars>>

\* The loop of reloadClientPortForwards up to its next listen that binds: a
\* rejected listen is caught per forward and the loop goes on.
RECURSIVE NextBindReload(_, _)
NextBindReload(sq, has) ==
  LET nb == NextBind(sq, has)
  IN IF nb.kind = "listen" /\ ~PortFree(Forwards[nb.fwd].remote_port)
     THEN NextBindReload(nb.rest, has)
     ELSE nb

\* reloadClientPortForwards with newForwards nf from forward list sq on,
\* with the servers in srv and the keys has of proxyServers: to the next
\* listen, or to the end, where config_update is written with newForwards.
RunReload(a, nf, sq, has, srv) ==
  LET nb == NextBindReload(sq, has)
  IN IF nb.kind = "listen"
     THEN /\ servers' = srv \cup {Server(rl[a].sock, nb.fwd, "reload", FALSE)}
          /\ rl' = [rl EXCEPT ![a] = [pc |-> "listen", sock |-> rl[a].sock,
                                      todo |-> nb.rest, list |-> nf]]
          /\ UNCHANGED queued
          /\ UNCHANGED ovars
     ELSE /\ servers' = srv
          /\ rl' = [rl EXCEPT ![a] =
                      IF queued[a] = <<>> THEN Idle
                      ELSE [pc |-> "query", sock |-> Head(queued[a]),
                            todo |-> <<>>, list |-> <<>>]]
          /\ queued' = [queued EXCEPT ![a] = IF @ = <<>> THEN @ ELSE Tail(@)]
          /\ sent' = Write(rl[a].sock, Msg("config_update", 0, nf))
          /\ UNCHANGED <<first, dbError>>

\* A port list that a reload leaves as it is.
AllPorts(currentPorts, newPortSet) == currentPorts

\* remainingPorts of reloadClientPortForwards (lines 985-986): the ports of
\* the socket's list that a row of the new list names.
remainingPorts(currentPorts, newPortSet) ==
  LET InNew(p) == p \in newPortSet
  IN SelectSeq(currentPorts, InNew)

\* getPortForwardsByClient of reloadClientPortForwards resolves (lines
\* 964-986): the proxy servers of the socket on ports that no enabled row of
\* the client names are closed, the socket's list is cut to the other ports,
\* and the loop over the forwards starts.
ReloadQueried(a) ==
  /\ NoTick
  /\ ~exited
  /\ UNCHANGED <<hvars, yvars, zvars>>
  /\ UNCHANGED gvars
  /\ UNCHANGED kvars
  /\ UNCHANGED bvars
  /\ UNCHANGED xvars
  /\ UNCHANGED nvars
  /\ rl[a].pc = "query"
  /\ LET socket        == rl[a].sock
         newForwards   == getPortForwardsByClient(a)
         currentPorts  == IF socket \in DOMAIN clients THEN clients[socket]
                          ELSE <<>>
         newPortSet    == {Forwards[f].remote_port : f \in SeqToSet(newForwards)}
         portsToRemove == {p \in SeqToSet(currentPorts) : p \notin newPortSet}
         closed        == {p \in portsToRemove \cap DOMAIN proxyServers :
                             proxyServers[p].controlSocket = socket}
         srv           == {x \in servers : ~(x.reg /\ x.port \in closed)}
     IN /\ proxyServers' =
             [p \in DOMAIN proxyServers \ closed |-> proxyServers[p]]
        /\ clients' =
             [t \in DOMAIN clients \cup {socket} |->
                IF t = socket THEN remainingPorts(currentPorts, newPortSet)
                ELSE clients[t]]
        /\ RunReload(a, newForwards, newForwards, DOMAIN proxyServers', srv)
  /\ UNCHANGED <<svars, clientSockets, enabled, changes, saves>>
  /\ UNCHANGED pvars

\* The listen callback of createProxyServer for the server a reload waits
\* for, and the loop of reloadClientPortForwards resumed.
ReloadListenDone(a) ==
  /\ ~exited
  /\ UNCHANGED <<hvars, yvars, zvars>>
  /\ UNCHANGED gvars
  /\ UNCHANGED kvars
  /\ UNCHANGED bvars
  /\ UNCHANGED xvars
  /\ UNCHANGED nvars
  /\ rl[a].pc = "listen"
  /\ \E x \in servers :
       /\ x.ctl = rl[a].sock /\ x.by = "reload" /\ ~x.reg
       /\ proxyServers' =
            [p \in DOMAIN proxyServers \cup {x.port} |->
               IF p = x.port
               THEN [controlSocket |-> x.ctl, portForwardId |-> x.fwd]
               ELSE proxyServers[p]]
       /\ clients' =
            [t \in DOMAIN clients \cup {x.ctl} |->
               IF t = x.ctl
               THEN (IF t \in DOMAIN clients THEN clients[t] ELSE <<>>)
                      \o <<x.port>>
               ELSE clients[t]]
       /\ RunReload(a, rl[a].list, rl[a].todo, DOMAIN proxyServers',
                    (servers \ {x}) \cup {[x EXCEPT !.reg = TRUE]})
  /\ UNCHANGED <<svars, clientSockets, enabled, changes, saves>>
  /\ UNCHANGED pvars

\* ================================================================ claims
\* The remote ports on which control socket s owns a registered listener,
\* the remote ports the enabled rows of agent a ask the server to bind, and
\* the waiting socket of a pending connection.
OwnedPorts(s) == {x.port : x \in {y \in servers : y.ctl = s /\ y.reg}}
DesiredPorts(a) ==
  {Forwards[f].remote_port :
     f \in {g \in enabled : Forwards[g].client = a /\ BindsOnServer(g)}}
Waiting(p) == IF p.clientSocket # 0 THEN p.clientSocket ELSE p.targetSocket

\* C1: at most one authenticated control session is live per agent: when a
\* second session of an agent has completed its authentication, the earlier
\* session of that agent is no longer open.
C1_OneLiveSessionPerAgent ==
  \A s, t \in CSocks :
    (/\ s # t
     /\ clientId[s] # "none" /\ clientId[s] = clientId[t]
     /\ pc[s] = "steady" /\ pc[t] = "steady")
    => ~(alive[s] = "open" /\ alive[t] = "open")

\* C2: an agent reconnects with the catalog unchanged, and no other agent
\* connects: once its new session is authenticated and its previous session
\* has ended, the new session owns a listener on every remote port the
\* catalog asks for, and the agent is registered with the new session.
C2_ReconnectSameListeners ==
  \A s \in CSocks :
    (/\ clientId[s] # "none" /\ pc[s] = "steady" /\ alive[s] = "open"
     /\ changes = 0
     /\ BindPort \notin DesiredPorts(clientId[s])
     /\ \E t \in CSocks \ {s} : clientId[t] = clientId[s]
     /\ \A t \in CSocks \ {s} :
          \/ alive[t] = "none"
          \/ /\ clientId[t] = clientId[s] /\ alive[t] = "closed"
             /\ pc[t] = "steady" /\ ~hbTimer[t])
    => /\ OwnedPorts(s) = DesiredPorts(clientId[s])
       /\ clientId[s] \in DOMAIN clientSockets
       /\ clientSockets[clientId[s]] = s

\* C3: the step in which a control session ends removes every pending
\* connection that waits on behalf of that session from the table and
\* destroys its waiting socket, and leaves no registry entry for the session.
C3_TeardownFailsPendings ==
  [][\A s \in CSocks :
       (alive[s] = "open" /\ alive'[s] # "open" /\ isControl[s])
       => /\ \A c \in DOMAIN pendingConnections :
               LET u == Waiting(pendingConnections[c])
               IN (uconn[u].ctl = s /\ Pipes(u) = {})
                  => /\ c \notin DOMAIN pendingConnections'
                     /\ usock'[u] # "open"
          /\ \A a \in DOMAIN clientSockets' : clientSockets'[a] # s]_vars

\* C4: a control session that is closed, whose handshake has run to its end
\* and for which no timer and no reload is left, owns no listener.
C4_NoListenerOfDeadSession ==
  \A s \in CSocks :
    (/\ alive[s] = "closed" /\ pc[s] \in {"steady", "dead"} /\ ~hbTimer[s]
     /\ \A a \in Agents : rl[a].pc = "idle" \/ rl[a].sock # s)
    => \A x \in servers : x.ctl # s

\* C5: at most one data connection is ever spliced to a waiting socket.
C5_OneJoinPerPending ==
  \A u \in USocks : Cardinality(Pipes(u)) <= 1

\* C6: no socket that a deadline callback destroyed was spliced to a data
\* connection.
C6_NoTimeoutAfterJoin ==
  \A u \in timedOut : Pipes(u) = {}

\* C7: every pending connection that has not been joined has an armed
\* deadline that will destroy its waiting socket and remove it.
C7_PendingHasDeadline ==
  \A c \in DOMAIN pendingConnections :
    LET u == Waiting(pendingConnections[c])
    IN Pipes(u) = {} => \E t \in timers : t.id = c /\ t.sock = u

\* C8: the bytes that followed the data_connection line in the first read
\* are on the waiting socket, unchanged, right after what it had received
\* before the join and ahead of every later byte.
C8_ResidualForwarded ==
  \A d \in DSocks :
    (dconn[d].peer # 0 /\ dconn[d].live)
    => SubSeq(received[dconn[d].peer], dconn[d].mark + 1,
              dconn[d].mark + Len(dconn[d].rest)) = dconn[d].rest

\* C9: no two listeners hold the same port, every entry of proxyServers is
\* the one listener on its port, and no port is in the list of two control
\* sessions.
C9_OneListenerPerPort ==
  /\ \A x, y \in servers : x.port = y.port => x = y
  /\ \A p \in DOMAIN proxyServers :
       \E x \in servers : /\ x.port = p /\ x.reg
                          /\ x.ctl = proxyServers[p].controlSocket
  /\ \A s, t \in DOMAIN clients :
       s # t => SeqToSet(clients[s]) \cap SeqToSet(clients[t]) = {}

\* C9 witness: B's session is authenticated while A's session holds the
\* listener on the port both ask for.
C9_Witness ==
  \E s, t \in CSocks :
    /\ clientId[s] = "A" /\ clientId[t] = "B"
    /\ pc[s] = "steady" /\ pc[t] = "steady"
    /\ alive[s] = "open" /\ alive[t] = "open"
    /\ 6001 \in OwnedPorts(s)
    /\ 7001 \in OwnedPorts(t)

\* C10: when an authentication has run to its end, and no session ended and
\* the catalog did not change meanwhile, every remote port the agent's
\* enabled rows ask for is bound: by this session, or by the listener that
\* held it before.
C10_OtherForwardsStillBound ==
  \A s \in CSocks :
    (/\ clientId[s] # "none" /\ pc[s] = "steady"
     /\ changes = 0
     /\ \A t \in CSocks : alive[t] \in {"none", "open"})
    => \A p \in DesiredPorts(clientId[s]) : ~PortFree(p)

\* The ports some other holder than control socket s has bound: another
\* session's listener, or the control server.
HeldByOthers(s) == {x.port : x \in {y \in servers : y.ctl # s}}

\* C11: the step that completes a reload for an agent whose session is open
\* and authenticated leaves that session owning a listener on exactly the
\* remote ports of the agent's enabled forward/dynamic rows that nobody else
\* holds.
C11_ReloadReconciles ==
  [][\A a \in Agents, s \in CSocks :
       (/\ rl[a].pc # "idle" /\ rl[a].sock = s /\ rl'[a].pc = "idle"
        /\ alive'[s] = "open" /\ pc'[s] = "steady")
       => OwnedPorts(s)' = (DesiredPorts(a) \ HeldByOthers(s))']_vars

\* The open, authenticated control sessions of agent a.
Sessions(a) ==
  {s \in CSocks : clientId[s] = a /\ alive[s] = "open" /\ pc[s] = "steady"}

\* C12: a change of a row of an agent that has an open authenticated session
\* starts a reload for the agent, and the step that completes a reload
\* writes one config_update with the agent's current enabled rows to the
\* session.
C12_ChangeTriggersReload ==
  [][\A a \in Agents :
       /\ (/\ \E f \in ForwardIds :
                /\ Forwards[f].client = a
                /\ (f \in enabled) # (f \in enabled')
            /\ Sessions(a) # {})
           => rl'[a].pc = "query"
       /\ \A s \in CSocks :
            (/\ rl[a].pc # "idle" /\ rl[a].sock = s /\ rl'[a].pc = "idle"
             /\ alive[s] = "open")
            => sent'[s] = Append(sent[s],
                                 Msg("config_update", 0,
                                     getPortForwardsByClient(a)'))]_vars

\* The first line of control socket s must be refused: it is no JSON, has
\* another type, or is a control_handshake whose token is missing, unknown
\* or of a disabled client, or whose token lookup failed.
BadInput(s) ==
  \/ first[s] \in BadLines
  \/ first[s] = "handshake" /\ token[s] \notin {"tokA", "tokB"}
  \/ dbError[s]

Acks(s) ==
  LET IsAck(m) == m.type = "heartbeat_ack"
  IN Len(SelectSeq(sent[s], IsAck))

\* C14: on an open authenticated session the heartbeat deadline is 40 s
\* after the agent's last heartbeat (after the authentication when it sent
\* none), so it is not due while the agent sent one within the last 30 s,
\* and every heartbeat was answered with one heartbeat_ack; the step in which
\* the deadline expires destroys the session, closes its listeners and
\* removes it from the registry.
C14_HeartbeatDeadline ==
  /\ [](\A s \in CSocks :
          (alive[s] = "open" /\ hbTimer[s])
          => /\ deadline[s] + quiet[s] = HeartbeatDeadline
             /\ Acks(s) = beats[s])
  /\ [][\A s \in CSocks :
          (hbTimer[s] /\ deadline[s] = 0 /\ ~hbTimer'[s])
          => /\ alive'[s] # "open"
             /\ \A x \in servers' : x.ctl # s
             /\ \A a \in DOMAIN clientSockets' : clientSockets'[a] # s]_vars

\* The user socket that waits, or waited, under connectionId c.
UserOf(c) == {u \in USocks : uconn[u].id = c}

\* C15: once a user socket and a data connection are spliced, "end" on
\* either one ends the other and "error" on either one destroys the other;
\* and when the agent's dial to the local service failed and it destroyed its
\* data socket, the user socket of that connection is eventually no longer
\* open on the server.
C15_PipePropagates ==
  /\ [][\A u \in USocks, d \in DSocks :
          (d \in Pipes(u) /\ dsock[d] = "open" /\ usock[u] = "open")
          => /\ UserGone(u, "end") => dsock'[d] = "ended"
             /\ UserGone(u, "error") => dsock'[d] = "destroyed"
             /\ DataGone(d, "end") => usock'[u] = "ended"
             /\ DataGone(d, "error") => usock'[u] = "destroyed"]_vars
  /\ \A c \in ConnIds :
       (job[c].kind = "new" /\ job[c].st = "torn")
       ~> (\A u \in UserOf(c) : usock[u] # "open")

\* The agent's dial failed, its data socket had joined the user socket, and
\* the server ended the user socket.
C15_Witness ==
  \E c \in ConnIds, u \in USocks :
    /\ job[c].kind = "new" /\ job[c].st = "torn" /\ job[c].d # 0
    /\ uconn[u].id = c /\ dconn[job[c].d].peer = u
    /\ usock[u] = "ended"

\* The last line the server wrote to control socket s in this step, if it
\* wrote one.
Wrote(s, type) ==
  /\ Len(sent'[s]) = Len(sent[s]) + 1
  /\ sent'[s][Len(sent'[s])].type = type
WroteId(s) == sent'[s][Len(sent'[s])].id

\* The enabled reverse row of the client of s that a reverse_connection
\* line names, if there is one.
Found(s, m) ==
  /\ m.list[1] \in enabled
  /\ Forwards[m.list[1]].client = clientId[s]
  /\ Forwards[m.list[1]].direction = "reverse"

\* C16: the server writes reverse_ready for a connectionId only in the step
\* in which its dial for that request has connected and the pending
\* connection with that target socket is stored under the connectionId; a
\* reverse_connection that names no enabled reverse row of the agent, and a
\* dial that fails, are answered with reverse_failed and store nothing; and
\* the agent that reads reverse_failed destroys the local user socket that
\* waits under the connectionId and forgets it.
C16_ReverseReadyAfterDial ==
  [][\A s \in CSocks :
       /\ Wrote(s, "reverse_ready")
          => \E u \in USocks :
               /\ usock[u] = "dialing" /\ usock'[u] = "open"
               /\ uconn[u].ctl = s /\ uconn[u].id = WroteId(s)
               /\ WroteId(s) \in DOMAIN pendingConnections'
               /\ pendingConnections'[WroteId(s)].targetSocket = u
       /\ ( /\ alive[s] = "open" /\ inbox[s] # <<>>
            /\ Head(inbox[s]).type = "reverse_connection"
            /\ ~Found(s, Head(inbox[s]))
            /\ inbox'[s] = Tail(inbox[s]) )
          => /\ Wrote(s, "reverse_failed")
             /\ WroteId(s) = Head(inbox[s]).id
             /\ pendingConnections' = pendingConnections
             /\ usock' = usock
       /\ \A u \in USocks :
            ( /\ uconn[u].mode = "reverse" /\ uconn[u].ctl = s
              /\ alive[s] = "open"
              /\ usock[u] = "dialing" /\ usock'[u] \notin {"dialing", "open"} )
            => /\ Wrote(s, "reverse_failed")
               /\ WroteId(s) = uconn[u].id
               /\ pendingConnections' = pendingConnections
       /\ ( /\ seen'[s] = seen[s] + 1
            /\ sent[s][seen[s] + 1].type = "reverse_failed"
            /\ sent[s][seen[s] + 1].id \in DOMAIN pendingLocalConnections )
          => LET c == sent[s][seen[s] + 1].id
                 l == pendingLocalConnections[c]
             IN /\ lsock'[l].st = "destroyed"
                /\ c \notin DOMAIN pendingLocalConnections']_vars

\* The server's dial for a reverse_connection failed, reverse_failed was
\* written, no pending connection is stored, and the agent has destroyed the
\* local user socket that waited.
C16_Witness ==
  \E c \in ConnIds, l \in LSocks, u \in USocks :
    /\ lsock[l].mode = "reverse" /\ lsock[l].id = c
    /\ lsock[l].st = "destroyed"
    /\ uconn[u].id = c /\ usock[u] = "closed"
    /\ \E i \in 1..seen[1] : sent[1][i] = Msg("reverse_failed", c, <<>>)
    /\ c \notin DOMAIN pendingConnections

\* What the server wrote to user socket u after the method reply 05 00.
AfterMethod(u) == SubSeq(received[u], 3, Len(received[u]))

\* C17: on a user socket of a forward dynamic listener whose CONNECT request
\* was accepted, the first bytes the server writes after the method reply
\* are the SOCKS5 success reply (or the failure reply): no byte of the data
\* connection comes before it, whichever of dynamic_ready and
\* data_connection the server reads first.
C17_ReplyBeforeData ==
  \A u \in USocks :
    (uconn[u].mode = "socks5" /\ uconn[u].id # 0 /\ AfterMethod(u) # <<>>)
    => /\ Len(AfterMethod(u)) >= 10
       /\ SubSeq(AfterMethod(u), 1, 10) \in {SocksReply(0), SocksReply(1)}

\* sq is a prefix of the sequence whole.
IsPrefix(sq, whole) ==
  Len(sq) <= Len(whole) /\ sq = SubSeq(whole, 1, Len(sq))

\* The data connection that joined user socket u first.
FirstJoin(u) == CHOOSE d \in Pipes(u) : \A e \in Pipes(u) : d <= e

\* C18: on a forward dynamic connection, as long as no data connection has
\* joined, the bytes the user sent after its CONNECT request are all in
\* clientPreData, in order; from the join on, the bytes the server wrote to
\* the data connection that joined are the user's bytes from the first one
\* on, in order and each once, so that the buffered bytes come ahead of the
\* later ones; and none is missing while that data connection is open.
C18_PreDataFlushedInOrder ==
  \A u \in USocks :
    (uconn[u].mode = "socks5" /\ uconn[u].id # 0)
    => /\ ( /\ Pipes(u) = {}
            /\ uconn[u].id \in DOMAIN pendingConnections
            /\ pendingConnections[uconn[u].id].clientSocket = u )
          => pendingConnections[uconn[u].id].clientPreData
               = Payload(0, upay[u])
       /\ Pipes(u) # {}
          => /\ IsPrefix(dgot[FirstJoin(u)], Payload(0, upay[u]))
             /\ dsock[FirstJoin(u)] = "open"
                => dgot[FirstJoin(u)] = Payload(0, upay[u])

\* A data connection joined a user socket that had one byte buffered, and
\* the user sent another byte afterwards: both are on the data connection.
C18_Witness ==
  \E u \in USocks, d \in DSocks :
    /\ uconn[u].mode = "socks5" /\ dconn[d].peer = u
    /\ dconn[d].pre = 1
    /\ dgot[d] = Payload(0, 2)

\* C19: in the step in which the server handles dynamic_failed for a
\* connectionId whose user has not gone away, the user socket is written the
\* SOCKS5 failure reply and destroyed, and no pending connection is left
\* under the connectionId -- whether or not the agent's data connection has
\* joined or closed before.
C19_DynamicFailedReplies ==
  [][\A s \in CSocks, u \in USocks :
       ( /\ inbox[s] # <<>>
         /\ Head(inbox[s]).type = "dynamic_failed"
         /\ inbox'[s] = Tail(inbox[s])
         /\ uconn[u].mode = "socks5" /\ uconn[u].id = Head(inbox[s]).id
         /\ usock[u] \in {"open", "ended"} )
       => /\ received'[u] = received[u] \o SocksReply(1)
          /\ usock'[u] = "destroyed"
          /\ uconn[u].id \notin DOMAIN pendingConnections']_vars

\* The reply code a SOCKS5 negotiator owes a request it does not serve: 07
\* for a command other than CONNECT, 08 for a CONNECT with an address type
\* it does not know, 0 for a request it serves.
Refusal(cmd, atyp) ==
  IF cmd # 1 THEN 7 ELSE IF atyp \notin {1, 3, 4} THEN 8 ELSE 0

\* C20: a SOCKS5 request that is refused is answered with the reply of its
\* refusal code after the method reply, the socket is destroyed, no pending
\* connection is stored and nothing is written on the control connection;
\* on the server's forward dynamic listener and on the agent's reverse-dynamic
\* listener alike.
C20_SocksRefusal ==
  [][\A cmd \in Cmds, atyp \in Atyps :
       Refusal(cmd, atyp) # 0
       => /\ \A u \in USocks, n \in 0..1 :
               SocksRequest(u, cmd, atyp, n)
               => /\ received'[u] = received[u] \o <<5, 0>>
                                      \o SocksReply(Refusal(cmd, atyp))
                  /\ usock'[u] = "destroyed"
                  /\ pendingConnections' = pendingConnections
                  /\ sent' = sent
          /\ \A s \in CSocks, l \in LSocks, c \in ConnIds :
               AgentSocksRequest(s, l, cmd, atyp, c)
               => /\ lsock'[l].got = lsock[l].got \o <<5, 0>>
                                       \o SocksReply(Refusal(cmd, atyp))
                  /\ lsock'[l].st = "destroyed"
                  /\ pendingLocalConnections' = pendingLocalConnections
                  /\ inbox' = inbox]_vars

\* The bytesIn and bytesOut of forward f in the in-memory counters.
BytesIn(f) ==
  IF f \in DOMAIN trafficCounters THEN trafficCounters[f].bytesIn ELSE 0
BytesOut(f) ==
  IF f \in DOMAIN trafficCounters THEN trafficCounters[f].bytesOut ELSE 0

\* C21: on a spliced connection of a forward-direction forward, a byte of the
\* user that the server writes to the data connection adds one to the
\* forward's bytesIn and nothing to its bytesOut, and a chunk of the data
\* connection that the server writes to the user adds its length to bytesOut
\* and nothing to bytesIn.
C21_TrafficDirection ==
  [][/\ \A u \in USocks :
          ( /\ UserData(u) /\ ForwardMode(u)
            /\ \E d \in Pipes(u) : dsock[d] = "open" )
          => /\ BytesIn(uconn[u].fwd)' =
                  BytesIn(uconn[u].fwd)
                    + Cardinality({d \in Pipes(u) : dsock[d] = "open"})
             /\ BytesOut(uconn[u].fwd)' = BytesOut(uconn[u].fwd)
     /\ \A d \in DSocks :
          (PipeData(d) /\ ForwardMode(dconn[d].peer))
          => /\ BytesOut(uconn[dconn[d].peer].fwd)' =
                  BytesOut(uconn[dconn[d].peer].fwd) + Len(LaterChunk)
             /\ BytesIn(uconn[dconn[d].peer].fwd)' =
                  BytesIn(uconn[dconn[d].peer].fwd)]_vars

\* The bytes in a sequence of rows of traffic counts.
RECURSIVE SumRows(_)
SumRows(rows) ==
  IF rows = <<>> THEN 0
  ELSE Head(rows).bytesIn + Head(rows).bytesOut + SumRows(Tail(rows))

\* The bytes in the rows that the calls of flushTrafficCounters in progress
\* have still to insert.
RECURSIVE SumCalls(_)
SumCalls(calls) ==
  IF calls = <<>> THEN 0 ELSE SumRows(Head(calls)) + SumCalls(Tail(calls))

\* C22: the step in which the server is stopped and its process exits leaves
\* every byte that was counted and not yet logged -- those in the in-memory
\* counters and those of a flush in progress -- in the traffic log.
C22_FlushedAtShutdown ==
  [][(~exited /\ exited')
     => SumRows(trafficLog') =
          SumRows(trafficLog) + SumRows(Snapshot(DOMAIN trafficCounters))
            + SumCalls(flushing)]_vars

\* The portForwards of the line the agent handled last on connection s,
\* and of the one it is to handle next.
LastList(s) == sent[s][seen[s]].list

NextLine(s) == sent[s][seen[s] + 1]

\* C23: when the agent handles a config_update whose portForwards are the
\* rows it is assigned already, no reverse or reverse-dynamic listener is
\* made and none is closed: both listener maps keep their servers and
\* net.createServer is not called.  A config_update handled twice therefore
\* leaves the listeners the first handling made.
C23_SameConfigKeepsListeners ==
  [][\A s \in CSocks :
       (/\ AgentMessage(s)
        /\ NextLine(s).type = "config_update"
        /\ SeqToSet(NextLine(s).list) = Assigned(s))
       => /\ reverseServers' = reverseServers
          /\ socksServers' = socksServers
          /\ made' = made]_vars

\* The agent has handled a config_update that repeats the rows of the line
\* before it, which made a listener.
C23_Witness ==
  \E s \in CSocks :
    /\ seen[s] >= 2
    /\ LastList(s) # <<>>
    /\ sent[s][seen[s]].type = "config_update"
    /\ sent[s][seen[s] - 1].type \in {"auth_response", "config_update"}
    /\ sent[s][seen[s] - 1].list = LastList(s)
    /\ DOMAIN reverseServers \cup DOMAIN socksServers # {}

\* C24: a data connection whose line names a connectionId that is no key of
\* pendingConnections is destroyed, and the pending table with its timers,
\* the proxy servers and their registry, every control session and the lines
\* written to the agents stay as they are.
C24_UnmatchedDataConnection ==
  [][\A d \in DSocks, c \in ConnIds, rest \in Residuals :
       (DataConnection(d, c, rest) /\ c \notin DOMAIN pendingConnections)
       => /\ dsock'[d] = "closed"
          /\ UNCHANGED <<pendingConnections, timers, usock, received>>
          /\ UNCHANGED <<servers, proxyServers, clients, clientSockets>>
          /\ UNCHANGED <<svars, sent>>]_vars

\* A data connection that named no pending connection was destroyed while a
\* proxy server listens and a pending connection of another connectionId
\* waits.
C24_Witness ==
  \E d \in DSocks :
    /\ dsock[d] = "closed"
    /\ dconn[d] = NoJoin
    /\ DOMAIN pendingConnections # {}
    /\ DOMAIN proxyServers # {}

\* A udp_packet for connectionId c that the agent has still to read.
Unread(c) ==
  /\ controlSocket = "open"
  /\ \E i \in (seen[link] + 1)..Len(sent[link]) :
       sent[link][i].type = "udp_packet" /\ sent[link][i].id = c

\* C25: a UDP session of the agent for which no further udp_packet comes is
\* closed and deleted in the end, whatever else happens.
C25_IdleSessionClosed ==
  \A c \in ConnIds :
    (c \in udpSessions /\ ~Unread(c)) ~> (c \notin udpSessions \/ Unread(c))

\* C27: from its first connect() on, an agent whose control socket is
\* neither connecting nor open has its reconnect timer armed.
C27_ReconnectScheduled ==
  (attempts > 0 /\ controlSocket \notin {"connecting", "open"})
    => reconnectTimer

\* The pending connections of session t: the ones its agent owns, and the
\* ones of users who came to a proxy server of t.
PendingOf(t) ==
  {c \in DOMAIN pendingConnections :
     LET p == pendingConnections[c]
     IN \/ p.ownerClientId = clientId[t]
        \/ p.clientSocket # 0 /\ uconn[p.clientSocket].ctl = t}

\* What belongs to session t is there after the step as before it: its
\* proxy servers and their entries, its port list, the registry entry of its
\* agent, and its pending connections with their sockets.
Kept(t) ==
  /\ \A x \in servers : x.ctl = t => x \in servers'
  /\ \A p \in DOMAIN proxyServers :
       proxyServers[p].controlSocket = t
         => p \in DOMAIN proxyServers' /\ proxyServers'[p] = proxyServers[p]
  /\ t \in DOMAIN clients => t \in DOMAIN clients' /\ clients'[t] = clients[t]
  /\ (clientId[t] \in DOMAIN clientSockets /\ clientSockets[clientId[t]] = t)
       => /\ clientId[t] \in DOMAIN clientSockets'
          /\ clientSockets'[clientId[t]] = t
  /\ \A c \in PendingOf(t) :
            /\ c \in DOMAIN pendingConnections'
            /\ pendingConnections'[c] = pendingConnections[c]
            /\ \A u \in {pendingConnections[c].clientSocket,
                         pendingConnections[c].targetSocket} \ {0} :
                 usock'[u] = usock[u]

\* C26: a step in which a control socket s ends, fails or is closed leaves
\* everything that belongs to the session t of another agent.
C26_TeardownIsolated ==
  [][\A s \in CSocks, t \in CSocks :
       (/\ alive'[s] # alive[s] /\ alive'[s] # "open"
        /\ clientId[t] \notin {"none", clientId[s]})
       => Kept(t)]_vars

\* The session of one agent is gone while another agent's session has a
\* proxy server and a pending connection.
C26_Witness ==
  \E s \in CSocks, t \in CSocks :
    /\ clientId[s] # "none" /\ alive[s] \in {"closing", "closed"}
    /\ clientId[t] \notin {"none", clientId[s]}
    /\ alive[t] = "open"
    /\ \E p \in DOMAIN proxyServers : proxyServers[p].controlSocket = t
    /\ PendingOf(t) # {}

\* C28: no connectionId is a key of pendingConnections while a data
\* connection joined under it is spliced to its peer.
C28_PendingOrPiped ==
  \A d \in DSocks :
    (dsock[d] = "open" /\ dconn[d].id # 0)
      => dconn[d].id \notin DOMAIN pendingConnections

\* C29: the lines read on a control socket after its handshake line are the
\* lines handed to handleMessage, each once and in the order of arrival.
C29_EveryLineDispatched ==
  \A s \in CSocks : handled[s] = arrived[s]

\* Session s is at rest: it is authenticated, its proxy servers are
\* created, no reload of its agent is in progress and no listen callback is
\* due.
AtRest(s) ==
  /\ alive[s] = "open" /\ pc[s] = "steady"
  /\ rl[clientId[s]].pc = "idle"
  /\ NoTick

\* The ports of the proxy servers registered to session s, its port list,
\* and the ports a reconciliation run alone gives it: the remote ports of
\* the enabled forward and dynamic rows of its agent.
OwnedBy(s) == {p \in DOMAIN proxyServers : proxyServers[p].controlSocket = s}

PortList(s) == IF s \in DOMAIN clients THEN clients[s] ELSE <<>>

Reconciled(s) ==
  {Forwards[f].remote_port :
     f \in {g \in enabled : /\ Forwards[g].client = clientId[s]
                            /\ Forwards[g].direction \in {"forward", "dynamic"}}}

\* The positions of the lines of the given type written to session s.
Lines(s, type) == {i \in DOMAIN sent[s] : sent[s][i].type = type}

\* C30: whenever a session is at rest, whatever reloads overlapped each
\* other or its authentication before, its listeners are the ones the
\* catalog asks for, as after a run of the reloads one by one; every port is
\* bound by one server only, and the session's port list names each of its
\* listeners once.
C30_OverlapAsSequential ==
  \A s \in CSocks :
    AtRest(s) =>
      /\ OwnedBy(s) = Reconciled(s)
      /\ \A x \in servers, y \in servers : x.port = y.port => x = y
      /\ {x.port : x \in {y \in servers : y.ctl = s}} = OwnedBy(s)
      /\ SeqToSet(PortList(s)) = OwnedBy(s)
      /\ Len(PortList(s)) = Cardinality(OwnedBy(s))

\* A session is at rest with a listener after two reloads, one for a
\* changed and one for an unchanged catalog, of which one ran during its
\* authentication, so that config_update was written before auth_response.
C30_Witness ==
  \E s \in CSocks :
    /\ AtRest(s)
    /\ OwnedBy(s) # {}
    /\ Cardinality(Lines(s, "config_update")) = 2
    /\ \E i \in Lines(s, "config_update"), j \in Lines(s, "auth_response") :
         i < j
    /\ changes = 1 /\ saves = 1

\* C31: an entry of pendingConnections is replaced or deleted only on behalf
\* of the socket it holds.  A step that keeps a connectionId in the table
\* keeps the socket its entry holds; and a step that deletes an entry is one
\* in which the socket the entry holds, or a data connection spliced to that
\* socket, is ended, destroyed or closed.
C31_PendingKeptForItsSocket ==
  [][\A c \in DOMAIN pendingConnections :
       LET u == Waiting(pendingConnections[c])
       IN /\ c \in DOMAIN pendingConnections'
             => Waiting(pendingConnections'[c]) = u
          /\ c \notin DOMAIN pendingConnections'
             => \/ usock'[u] # usock[u]
                \/ \E d \in Pipes(u) : dsock'[d] # dsock[d]]_vars

\* The listener map holds for row f a server under the row's name that was
\* made for the row's direction and listens on the row's local port.
Serves(map, f) ==
  /\ Forwards[f].name \in DOMAIN map
  /\ LET made_for == map[Forwards[f].name].forward
     IN /\ Forwards[made_for].direction = Forwards[f].direction
        /\ Forwards[made_for].local_port = Forwards[f].local_port

\* C32: the step in which the agent handles a successful auth_response or a
\* config_update leaves, for every reverse row of the line's list, a reverse
\* listener of that name on the row's local port and no SOCKS5 listener of
\* that name; for every reverse-dynamic row the same with the parts
\* exchanged; and no listener under a name the list does not hold.
C32_ListenersMatchList ==
  [][\A s \in CSocks :
       (/\ AgentMessage(s)
        /\ \/ NextLine(s).type = "config_update"
           \/ NextLine(s).type = "auth_response" /\ NextLine(s).id = 1)
       => /\ \A f \in SeqToSet(NextLine(s).list) :
               /\ Forwards[f].direction = "reverse"
                    => /\ Serves(reverseServers', f)
                       /\ Forwards[f].name \notin DOMAIN socksServers'
               /\ Forwards[f].direction = "reverse-dynamic"
                    => /\ Serves(socksServers', f)
                       /\ Forwards[f].name \notin DOMAIN reverseServers'
          /\ (DOMAIN reverseServers' \cup DOMAIN socksServers')
               \subseteq DesiredReverseNames(NextLine(s).list)]_vars

\* C33: on a local SOCKS5 socket of a reverse-dynamic listener whose data
\* socket is connected and piped, the bytes the agent has written to the data
\* socket are the bytes the user has sent after its CONNECT request, from the
\* first one on, in order: also those sent before the success reply.
C33_EarlyBytesForwarded ==
  \A l \in LSocks :
    (/\ lsock[l].mode = "socks5" /\ lsock[l].id # 0
     /\ job[lsock[l].id].st = "piped")
    => lsock[l].out = Payload(0, lsock[l].pay)

\* C34: no entry of clientSockets maps an agent to a control socket that is
\* closed: the events that end a socket take its entry out of the registry,
\* and no entry is made for a socket that has closed while its token lookup
\* was awaited.
C34_RegistryHoldsLiveSockets ==
  \A a \in DOMAIN clientSockets : alive[clientSockets[a]] # "closed"

\* The bytes of forward f in direction dir ("bytesIn" or "bytesOut") in a
\* sequence of rows, in the rows the flushes in progress have still to insert,
\* and in the in-memory counters.
RECURSIVE Tally(_, _, _)
Tally(rows, f, dir) ==
  IF rows = <<>> THEN 0
  ELSE (IF Head(rows).fwd = f THEN Head(rows)[dir] ELSE 0)
         + Tally(Tail(rows), f, dir)

RECURSIVE TallyCalls(_, _, _)
TallyCalls(calls, f, dir) ==
  IF calls = <<>> THEN 0
  ELSE Tally(Head(calls), f, dir) + TallyCalls(Tail(calls), f, dir)

InMemory(f, dir) ==
  IF f \in DOMAIN trafficCounters THEN trafficCounters[f][dir] ELSE 0

\* The bytes of forward f in direction dir the server accounts for: logged,
\* being flushed, or in memory.
Accounted(f, dir) ==
  Tally(trafficLog, f, dir) + TallyCalls(flushing, f, dir) + InMemory(f, dir)

\* C35: while the server runs, a step of a flush -- its start, which copies
\* and clears the counters, or the completion of one of its inserts -- leaves
\* the bytes accounted for each forward and direction as they are, also when
\* counts were added since the flush began; every other step leaves the log
\* and the flushes alone and only adds to the counters; and no logged row has
\* both counts zero.
C35_FlushConservesBytes ==
  /\ [][~exited'
        => \A f \in DOMAIN Forwards, dir \in {"bytesIn", "bytesOut"} :
             IF <<trafficLog, flushing>>' # <<trafficLog, flushing>>
             THEN Accounted(f, dir)' = Accounted(f, dir)
             ELSE InMemory(f, dir)' >= InMemory(f, dir)]_vars
  /\ [](\A i \in DOMAIN trafficLog :
          trafficLog[i].bytesIn > 0 \/ trafficLog[i].bytesOut > 0)

\* A flush has logged a row and a second flush awaits its insert, while
\* bytes counted since it began are in the counters.
C35_Witness ==
  /\ trafficLog # <<>>
  /\ flushing # <<>>
  /\ DOMAIN trafficCounters # {}
  /\ ~exited

\* C36: whatever chunks the bytes of a greeting and a CONNECT request with
\* address type 01, 03 or 04 come in, the negotiator is, after any number of
\* them, in the state it is in when it is handed the same bytes at once; it
\* writes the method reply 05 00 once and stores one pending connection at
\* most; and when it has all bytes, it has written 05 00, stored one pending
\* connection, extracted the address of the request and the port as the
\* first port byte times 256 plus the second, and put every byte after the
\* port into clientPreData.
C36_ChunkingIndependent ==
  wire \in Wires
  => /\ neg = Socks5OnData(NegStart, SubSeq(Bytes(wire), 1, cut))
     /\ IsPrefix(neg.written, <<5, 0>>)
     /\ neg.pendings <= 1
     /\ cut = Len(Bytes(wire))
        => /\ neg.written = <<5, 0>>
           /\ neg.pendings = 1
           /\ neg.targetHost = Addr(wire.atyp, wire.addr)
           /\ neg.targetPort = (wire.port[1] * 256) + wire.port[2]
           /\ neg.clientPreData = wire.tail

\* The negotiator has been handed byte by byte a greeting of two methods
\* and a request for a name on port 443 that payload follows.
C36_Witness ==
  /\ wire \in Wires
  /\ wire.atyp = 3 /\ wire.port = <<1, 187>> /\ wire.tail # <<>>
  /\ Len(wire.greet) = 4
  /\ cut = Len(Bytes(wire))
  /\ chunks = cut
  /\ neg.stage = "wait"

\* The auth_response messages written to control socket s, and the
\* control-message handlers installed on it (line 222).
AuthResponses(s) ==
  Cardinality({i \in DOMAIN sent[s] : sent[s][i].type = "auth_response"})
Installed(s) ==
  (IF pc[s] = "steady" THEN 1 ELSE 0) + (IF second[s] = "done" THEN 1 ELSE 0)

\* C37: the handshake line of a connection is evaluated once: when further
\* bytes arrive while the token lookup is awaited, the server does not
\* authenticate the connection a second time, writes one auth_response at
\* most and installs one control-message handler at most.
C37_HandshakeOnce ==
  \A s \in CSocks :
    /\ second[s] \notin {"fwds", "proxies", "done"}
    /\ AuthResponses(s) <= 1
    /\ Installed(s) <= 1

\* The enabled rows of the agent of session s that ask for a listener on
\* remote port p.
Owners(s, p) ==
  {g \in enabled : /\ Forwards[g].client = clientId[s]
                   /\ BindsOnServer(g)
                   /\ Forwards[g].remote_port = p}

\* Forward f, which a listener was made for, has the name, the row id and
\* the proxy type of row g.
Carries(f, g) ==
  /\ Forwards[f].name = Forwards[g].name
  /\ Forwards[f].row = Forwards[g].row
  /\ ProxyType(f) = ProxyType(g)

\* C38: when a session is at rest after a reload, each of its listeners
\* carries the name, the row id and the proxy type of the enabled row that
\* names its port, and a user who connects to it then is handled with that
\* type, counted under that row id and, on a tcp listener, announced to the
\* agent under that name.
C38_ListenersCarryCurrentRow ==
  /\ [](\A s \in CSocks :
          AtRest(s)
          => \A x \in servers :
               x.ctl = s /\ x.reg
               => \A g \in Owners(s, x.port) : Carries(x.fwd, g))
  /\ [][\A u \in USocks, x \in servers :
          UserConnect(u, x) /\ AtRest(x.ctl)
          => \A g \in Owners(x.ctl, x.port) :
               /\ Carries(uconn'[u].fwd, g)
               /\ uconn'[u].mode = ProxyType(g)
               /\ uconn'[u].mode = "tcp"
                  => LET line == sent'[x.ctl][Len(sent'[x.ctl])]
                     IN /\ line.type = "new_connection"
                        /\ Forwards[line.list[1]].name = Forwards[g].name]_vars

\* The positions of the outcome messages for connectionId c among the
\* lines written to session s.
Outcomes(s, c) ==
  {i \in DOMAIN sent[s] :
     /\ sent[s][i].id = c
     /\ sent[s][i].type \in {ReverseReply(dir, outcome) :
                               dir \in {"reverse", "reverse-dynamic"},
                               outcome \in {"ready", "failed"}}}

\* C39: the server writes one outcome message at most for a connectionId an
\* agent has asked a reverse or reverse-dynamic connection for; no *_failed
\* follows the *_ready.
C39_OneOutcome ==
  \A s \in CSocks, c \in ConnIds : Cardinality(Outcomes(s, c)) <= 1

\* C40: while the agent has no live control connection, no step of a local
\* user at one of its listeners ends the agent's process with an uncaught
\* error or stores a pending local connection.
C40_DownRejects ==
  [][(~connected \/ controlSocket # "open")
       => /\ crashed' = crashed
          /\ DOMAIN pendingLocalConnections'
               \subseteq DOMAIN pendingLocalConnections]_vars

\* ------------------------------------------------------------------ Next
Next ==
  \/ \E s \in CSocks : Accept(s)
  \/ \E s \in CSocks, tok \in Tokens : Handshake(s, tok)
  \/ \E s \in CSocks, kind \in BadLines : BadFirstLine(s, kind)
  \/ \E s \in CSocks, err \in BOOLEAN : AuthDone(s, err)
  \/ \E s \in CSocks : FwdsDone(s)
  \/ \E s \in CSocks : ProxiesQueried(s)
  \/ \E s \in CSocks : ListenDone(s)
  \/ \E s \in CSocks : End(s)
  \/ \E s \in CSocks : Close(s)
  \/ \E s \in CSocks : HeartbeatTimeout(s)
  \/ \E f \in Toggled : Toggle(f)
  \/ \E a \in Agents : ReloadQueried(a)
  \/ \E a \in Agents : ReloadListenDone(a)

Spec == Init /\ [][Next]_vars

\* ------------------------------------------- one agent and its connections
\* The catalog with every row enabled, one control connection, which agent A
\* opens, and the user, target and data connections that meet in the
\* pending table.
InitP == Init /\ enabled = ForwardIds

NextP ==
  \/ Accept(1)
  \/ Handshake(1, "tokA")
  \/ \E err \in BOOLEAN : AuthDone(1, err)
  \/ FwdsDone(1)
  \/ ProxiesQueried(1)
  \/ ListenDone(1)
  \/ End(1)
  \/ Close(1)
  \/ HeartbeatTimeout(1)
  \/ \E u \in Users, x \in servers : UserConnect(u, x)
  \/ \E u \in Users : SocksRequest(u, 1, 1, 0)
  \/ \E f \in ForwardIds, c \in ConnIds, u \in Users :
        ReverseRequest(1, f, c, u)
  \/ \E u \in Users : DialDone(u)
  \/ \E u \in Users : DialError(u)
  \/ \E t \in timers : TimerFire(t)
  \/ \E d \in DSocks, c \in ConnIds, rest \in Residuals :
        DataConnection(d, c, rest)
  \/ \E d \in DSocks : PipeData(d)
  \/ \E u \in Users, how \in {"end", "error"} : UserGone(u, how)
  \/ \E d \in DSocks, how \in {"end", "error"} : DataGone(d, how)
  \/ \E u \in Users : UserClose(u)
  \/ \E d \in DSocks : DataClose(d)

SpecP == InitP /\ [][NextP]_vars

\* ------------------------------------------------ one session and the clock
\* One control connection of agent A, its heartbeats and the time between
\* them.
InitH == Init /\ enabled = ForwardIds \ {6}

NextH ==
  \/ Accept(1)
  \/ Handshake(1, "tokA")
  \/ AuthDone(1, FALSE)
  \/ FwdsDone(1)
  \/ ProxiesQueried(1)
  \/ ListenDone(1)
  \/ End(1)
  \/ Close(1)
  \/ Heartbeat(1)
  \/ Tick
  \/ Expire(1)

SpecH == InitH /\ [][NextH]_vars

\* ------------------------------------- forwarded connections and the agent
\* The forward and the dynamic row of agent A enabled, its control
\* connection, and a user whose connection the agent serves: the agent reads
\* the server's lines, opens its data socket and dials.
InitD == enabled = {1, 2} /\ Boot

NextD ==
  \/ Accept(1)
  \/ Handshake(1, "tokA")
  \/ AuthDone(1, FALSE)
  \/ FwdsDone(1)
  \/ ProxiesQueried(1)
  \/ ListenDone(1)
  \/ AgentMessage(1)
  \/ \E u \in Users, x \in servers : UserConnect(u, x)
  \/ \E u \in Users, cmd \in Cmds, atyp \in Atyps, n \in 0..1 :
        SocksRequest(u, cmd, atyp, n)
  \/ \E u \in Users : UserData(u)
  \/ \E c \in ConnIds : AgentConnected(c)
  \/ \E c \in ConnIds, ok \in BOOLEAN : AgentDial(1, c, ok)
  \/ \E d \in DSocks, c \in ConnIds, rest \in Residuals : AgentJoin(d, c, rest)
  \/ \E d \in DSocks : AgentPipeData(d)
  \/ \E d \in DSocks : AgentFin(d)
  \/ OnDynamicReady(1)
  \/ OnDynamicFailed(1)
  \/ \E t \in timers : TimerFire(t)
  \/ \E u \in Users, how \in {"end", "error"} : UserGone(u, how)
  \/ \E d \in DSocks, how \in {"end", "error"} : DataGone(d, how)
  \/ \E u \in Users : UserClose(u)
  \/ \E d \in DSocks : DataClose(d)

SpecD == InitD /\ [][NextD]_vars

\* ----------------------------------------------- the same with the meter
\* The same connections, the periodic flush of the traffic counters, and the
\* SIGINT that stops the server.
NextT ==
  \/ Accept(1)
  \/ Handshake(1, "tokA")
  \/ AuthDone(1, FALSE)
  \/ FwdsDone(1)
  \/ ProxiesQueried(1)
  \/ ListenDone(1)
  \/ AgentMessage(1)
  \/ \E u \in Users, x \in servers : UserConnect(u, x)
  \/ \E u \in Users : SocksRequest(u, 1, 1, 0)
  \/ \E u \in Users : UserData(u)
  \/ \E c \in ConnIds : AgentConnected(c)
  \/ \E c \in ConnIds : AgentDial(1, c, TRUE)
  \/ \E d \in DSocks, c \in ConnIds, rest \in Residuals : AgentJoin(d, c, rest)
  \/ \E d \in DSocks : AgentPipeData(d)
  \/ OnDynamicReady(1)
  \/ FlushTick
  \/ \E i \in DOMAIN flushing : FlushWritten(i)
  \/ \E W \in SUBSET (1..(Len(flushing) + 1)) : Sigint(W)

SpecT == InitD /\ [][NextT]_vars

\* The same, with the network delivering what the agent wrote: the line of
\* a data socket the agent opened is read, and the FIN of one it destroyed
\* arrives.
SpecDF ==
  /\ SpecD
  /\ WF_vars(\E d \in DSocks, c \in ConnIds, rest \in Residuals :
               AgentJoin(d, c, rest))
  /\ WF_vars(\E d \in DSocks : AgentFin(d))

\* -------------------------------------------- reverse connections of agent A
\* The reverse and the reverse-dynamic row of agent A enabled, its control
\* connection, a local user of the agent, the server's dial to the target,
\* and an admin who may disable a row meanwhile.
InitR == enabled = {3, 4} /\ Boot

NextR ==
  \/ Accept(1)
  \/ Handshake(1, "tokA")
  \/ AuthDone(1, FALSE)
  \/ FwdsDone(1)
  \/ ProxiesQueried(1)
  \/ AgentMessage(1)
  \/ \E l \in LSocks, f \in {3, 4}, c \in ConnIds : AgentAccept(1, l, f, c)
  \/ \E l \in LSocks, cmd \in Cmds, atyp \in Atyps, c \in ConnIds :
        AgentSocksRequest(1, l, cmd, atyp, c)
  \/ OnReverse(1)
  \/ \E u \in Users : DialDone(u)
  \/ \E u \in Users : DialError(u)
  \/ \E c \in ConnIds : AgentConnected(c)
  \/ \E d \in DSocks, c \in ConnIds, rest \in Residuals : AgentJoin(d, c, rest)
  \/ \E d \in DSocks : AgentPipeData(d)
  \/ \E t \in timers : TimerFire(t)
  \/ \E f \in {3, 4} : Toggle(f)
  \/ ReloadQueried("A")
  \/ \E u \in Users, how \in {"end", "error"} : UserGone(u, how)
  \/ \E d \in DSocks, how \in {"end", "error"} : DataGone(d, how)
  \/ \E u \in Users : UserClose(u)
  \/ \E d \in DSocks : DataClose(d)

SpecR == InitR /\ [][NextR]_vars

\* ------------------------------------------- the agent and its connection
\* Agent A with its reverse and reverse-dynamic rows: it connects, loses the
\* connection and connects again, and local users reach its listeners.
NextN ==
  \/ \E s \in CSocks : Accept(s)
  \/ \E s \in CSocks : link = s /\ Handshake(s, "tokA")
  \/ \E s \in CSocks : AuthDone(s, FALSE)
  \/ \E s \in CSocks : FwdsDone(s)
  \/ \E s \in CSocks : ProxiesQueried(s)
  \/ \E s \in CSocks : End(s)
  \/ \E s \in CSocks : Close(s)
  \/ AgentStart
  \/ ReconnectFire
  \/ \E s \in CSocks : Linked(s)
  \/ ConnectFailed
  \/ \E how \in {"end", "error"} : ControlGone(how)
  \/ \E name \in DOMAIN socksServers : SocksRequestDown(name)
  \/ AgentReads

SpecN == InitR /\ [][NextN]_vars

\* ------------------------------------------------- datagrams for the agent
\* One control connection of agent A, the datagrams the server forwards on
\* it, and the UDP sessions the agent keeps for them.
NextU ==
  \/ Accept(1)
  \/ link = 1 /\ Handshake(1, "tokA")
  \/ AuthDone(1, FALSE)
  \/ FwdsDone(1)
  \/ ProxiesQueried(1)
  \/ End(1)
  \/ AgentStart
  \/ Linked(1)
  \/ \E how \in {"end", "error"} : ControlGone(how)
  \/ AgentReads
  \/ \E c \in ConnIds : UdpDatagram(1, c)
  \/ \E c \in ConnIds : UdpCloseSent(1, c)
  \/ \E c \in ConnIds : UdpError(c)

SpecU == InitR /\ [][NextU]_vars

\* The same, with the agent reading every line it is sent and seeing the
\* end of a connection the server has closed.
SpecUF ==
  /\ SpecU
  /\ WF_vars(AgentReads)
  /\ WF_vars(ControlGone("end"))

\* ------------------------------------------------ two agents and one user
\* Agents A and B, whose forwards name the same remote port, each with a
\* control connection, a user who connects to a proxy server, and the end
\* of either session.
InitX == enabled = {1, 3, 5, 7} /\ Boot

NextX ==
  \/ \E s \in CSocks : Accept(s)
  \/ \E s \in CSocks, tok \in {"tokA", "tokB"} : Handshake(s, tok)
  \/ \E s \in CSocks : AuthDone(s, FALSE)
  \/ \E s \in CSocks : FwdsDone(s)
  \/ \E s \in CSocks : ProxiesQueried(s)
  \/ \E s \in CSocks : ListenDone(s)
  \/ \E s \in CSocks : End(s)
  \/ \E s \in CSocks : Close(s)
  \/ \E s \in CSocks : HeartbeatTimeout(s)
  \/ \E u \in Users, x \in servers : UserConnect(u, x)
  \/ \E s \in CSocks, c \in ConnIds, u \in Users : ReverseRequest(s, 3, c, u)
  \/ \E t \in timers : TimerFire(t)

SpecX == InitX /\ [][NextX]_vars

\* ------------------------------------------ the agent's lines at the server
\* The reverse connections of agent A, with the server reading the agent's
\* lines also while it creates the proxy servers of the session.
NextK ==
  \/ NextR
  \/ BufferedLine(1)

SpecK == InitR /\ [][NextK]_vars

\* ------------------------------------------------- reloads that overlap
\* Agent A with its forward and its dynamic row, an admin who disables or
\* enables either row and saves a row unchanged, and the reloads this
\* starts, during the authentication of the session and during each other.
NextV ==
  \/ Accept(1)
  \/ Handshake(1, "tokA")
  \/ AuthDone(1, FALSE)
  \/ FwdsDone(1)
  \/ ProxiesQueried(1)
  \/ ListenDone(1)
  \/ AgentMessage(1)
  \/ \E f \in {1, 2} : Toggle(f)
  \/ Save(1)
  \/ ReloadQueried("A")
  \/ ReloadListenDone("A")

SpecV == InitD /\ [][NextV]_vars

\* ---------------------------------------------- connection ids that collide
\* Agent A with its forward and its reverse row: a user of its proxy server,
\* and a reverse_connection of the agent under any connectionId, also one
\* the server has generated for the user.
InitC == enabled = {1, 3} /\ Boot

NextC ==
  \/ Accept(1)
  \/ Handshake(1, "tokA")
  \/ AuthDone(1, FALSE)
  \/ FwdsDone(1)
  \/ ProxiesQueried(1)
  \/ ListenDone(1)
  \/ \E u \in USocks, x \in servers : UserConnect(u, x)
  \/ \E c \in ConnIds, u \in USocks : ReverseRequest(1, 3, c, u)
  \/ \E u \in USocks : DialDone(u)
  \/ \E u \in USocks : DialError(u)
  \/ \E t \in timers : TimerFire(t)
  \/ \E d \in DSocks, c \in ConnIds : DataConnection(d, c, <<>>)
  \/ \E u \in USocks, how \in {"end", "error"} : UserGone(u, how)
  \/ \E d \in DSocks, how \in {"end", "error"} : DataGone(d, how)
  \/ \E u \in USocks : UserClose(u)
  \/ \E d \in DSocks : DataClose(d)

SpecC == InitC /\ [][NextC]_vars

\* ------------------------------------------------- a reverse row rewritten
\* The reverse connections of agent A, with an admin who may also give the
\* reverse row another local port.
NextE ==
  \/ NextR
  \/ Update(3, 8)

SpecE == InitR /\ [][NextE]_vars

\* ------------------------------------------ the bytes of a local SOCKS5 user
\* The reverse connections of agent A, with a local user who sends payload
\* after its SOCKS5 request.
NextS ==
  \/ NextR
  \/ \E l \in LSocks : LocalData(l)

SpecS == InitR /\ [][NextS]_vars

\* ------------------------------------------------ the chunks of a SOCKS5 user
\* A user of a forward dynamic listener whose greeting, CONNECT request and
\* payload arrive in chunks of any lengths.
InitG == enabled = {} /\ Started /\ wire \in Wires

NextG == \E n \in 1..Len(Bytes(wire)) : Feed(n)

SpecG == InitG /\ [][NextG]_vars

\* ------------------------------------------- chunks during the token lookup
\* Control connections of which a further chunk arrives while their
\* handshake awaits getClientByToken.
NextY ==
  \/ \E s \in CSocks : Accept(s)
  \/ \E s \in CSocks, tok \in Tokens : Handshake(s, tok)
  \/ \E s \in CSocks, err \in BOOLEAN : AuthDone(s, err)
  \/ \E s \in CSocks : FwdsDone(s)
  \/ \E s \in CSocks : ProxiesQueried(s)
  \/ \E s \in CSocks : ListenDone(s)
  \/ \E s \in CSocks : End(s)
  \/ \E s \in CSocks : Close(s)
  \/ \E s \in CSocks : HeartbeatTimeout(s)
  \/ \E s \in CSocks : MoreData(s)
  \/ \E s \in CSocks, err \in BOOLEAN : AuthAgain(s, err)
  \/ \E s \in CSocks : FwdsAgain(s)
  \/ \E s \in CSocks : ProxiesAgain(s)

SpecY == InitD /\ [][NextY]_vars

\* ------------------------------------------------------- a rewritten row
\* Agent A with its forward and its dynamic row, an admin who disables or
\* enables a row, saves it unchanged or gives the forward another name, the
\* reloads this starts, and users who connect to the listeners.
NextW ==
  \/ NextV
  \/ \E f \in {1, 9}, g \in {1, 9} : Update(f, g)
  \/ \E u \in Users, x \in servers : UserConnect(u, x)

SpecW == InitD /\ [][NextW]_vars
====
